---- MODULE Spec2Model ----
(***************************************************************************)
(* A model of jtool's JSON normalizer (internal/normalize) and diff engine *)
(* (internal/diff).                                                        *)
(*                                                                         *)
(* Representation.  A decoded JSON value (Go `any` from json.Unmarshal) is *)
(* a tagged record.  Go's nil is Nil.  A float64 is kept as an integer     *)
(* count of halves (Num(3) is 1.5, Num(2) is 1.0), so that math.Trunc has  *)
(* something to truncate.  A Go string is a sequence of one-character      *)
(* strings, so that trimming, byte-wise ordering and path formatting are   *)
(* computed and not assumed.  A Go map is a function on its key set.       *)
(***************************************************************************)
EXTENDS Integers, Sequences, FiniteSets, TLC

VARIABLES left, right, opts, pc, norm, renorm, result

(* the texts handed to the App methods and the error they return *)
VARIABLES leftJSON, rightJSON, err

(* the maps and slices in memory around one call of normalize.Value *)
VARIABLE mem

(* the log analyzer in the middle of its input, the file history store and *)
(* the two summaries handed to CompareAnalyses with its result             *)
VARIABLES scan, hist, cmp

appVars == <<leftJSON, rightJSON, err>>

extVars == <<scan, hist, cmp>>

vars == <<left, right, opts, pc, norm, renorm, result, appVars, mem, extVars>>

----------------------------------------------------------------------------
(* The value model *)

Nil == [t |-> "null"]

Bool(b) == [t |-> "bool", b |-> b]

Num(h) == [t |-> "num", n |-> h]

Str(s) == [t |-> "str", s |-> s]

Arr(a) == [t |-> "arr", a |-> a]

Obj(o) == [t |-> "obj", o |-> o]

(* A slice as a sequence with its elements computed: TLC evaluates a       *)
(* function constructor anew at every application, SubSeq makes a tuple.  *)
Slice(f) == SubSeq(f, 1, Len(f))

(* The characters strings are made of, with their byte values. *)
Chars == {" ", ".", "0", "1", "2", "3", "4", "5", "6", "7", "8", "9", "[", "]", "a", "b"}

Code(c) ==
    CASE c = " " -> 32 [] c = "$" -> 36 [] c = "." -> 46
      [] c = "0" -> 48 [] c = "1" -> 49 [] c = "2" -> 50 [] c = "3" -> 51
      [] c = "4" -> 52 [] c = "5" -> 53 [] c = "6" -> 54 [] c = "7" -> 55
      [] c = "8" -> 56 [] c = "9" -> 57
      [] c = "[" -> 91 [] c = "]" -> 93
      [] c = "a" -> 97 [] c = "b" -> 98

RECURSIVE stringsCompare(_, _)
(* strings.Compare: byte-wise lexicographic order, -1 / 0 / +1 *)
stringsCompare(a, b) ==
    IF a = <<>> /\ b = <<>> THEN 0
    ELSE IF a = <<>> THEN -1
    ELSE IF b = <<>> THEN 1
    ELSE IF Code(Head(a)) < Code(Head(b)) THEN -1
    ELSE IF Code(Head(a)) > Code(Head(b)) THEN 1
    ELSE stringsCompare(Tail(a), Tail(b))

(* A long run of blanks is written as one element of the sequence: it is  *)
(* RunLen bytes long and is white space wherever a blank is.              *)
RunLen == 524288

BlankRun == "blanks"

Blanks == {" ", "\n", BlankRun}

RECURSIVE TrimLeft(_)
TrimLeft(s) == IF s # <<>> /\ Head(s) \in Blanks THEN TrimLeft(Tail(s)) ELSE s

RECURSIVE TrimRight(_)
TrimRight(s) ==
    IF s # <<>> /\ s[Len(s)] \in Blanks THEN TrimRight(SubSeq(s, 1, Len(s) - 1)) ELSE s

(* strings.TrimSpace *)
stringsTrimSpace(s) == TrimRight(TrimLeft(s))

(* math.Trunc on a count of halves: round toward zero to a whole number *)
mathTrunc(h) == IF h >= 0 THEN (h \div 2) * 2 ELSE -(((-h) \div 2) * 2)

----------------------------------------------------------------------------
(* internal/normalize/options.go *)

NoKey == <<>>

DefaultOptions ==
    [SortKeys |-> TRUE, NormalizeNumbers |-> TRUE, TrimStrings |-> FALSE,
     NullEqualsAbsent |-> FALSE, SortArrays |-> FALSE, SortArraysByKey |-> NoKey]

NoNormalization ==
    [SortKeys |-> FALSE, NormalizeNumbers |-> FALSE, TrimStrings |-> FALSE,
     NullEqualsAbsent |-> FALSE, SortArrays |-> FALSE, SortArraysByKey |-> NoKey]

----------------------------------------------------------------------------
(* internal/normalize/normalize.go: the sort comparators *)

(* typeOrder giving arrays and objects one rank *)
typeOrderContainersTied(v) ==
    CASE v.t = "null" -> 0
      [] v.t = "bool" -> 1
      [] v.t = "num" -> 2
      [] v.t = "str" -> 3
      [] OTHER -> 4

typeOrder(v) ==
    CASE v.t = "null" -> 0
      [] v.t = "bool" -> 1
      [] v.t = "num" -> 2
      [] v.t = "str" -> 3
      [] v.t = "arr" -> 4
      [] v.t = "obj" -> 5
      [] OTHER -> 6

(* normalize.compareValues (renamed: diff has a compareValues of its own) *)
sortCompareValues(a, b) ==
    IF typeOrder(a) # typeOrder(b) THEN typeOrder(a) - typeOrder(b)
    ELSE CASE a.t = "null" -> 0
           [] a.t = "bool" -> IF a.b = b.b THEN 0 ELSE IF ~a.b THEN -1 ELSE 1
           [] a.t = "num" -> IF a.n < b.n THEN -1 ELSE IF a.n > b.n THEN 1 ELSE 0
           [] a.t = "str" -> stringsCompare(a.s, b.s)
           [] OTHER -> 0

(* the less closure of sortArrayByKey answering true for tied values too *)
sortArrayByKeyLessOrTied(x, y, key) ==
    IF x.t # "obj" \/ y.t # "obj" THEN FALSE
    ELSE IF key \notin DOMAIN x.o \/ key \notin DOMAIN y.o THEN FALSE
    ELSE sortCompareValues(x.o[key], y.o[key]) <= 0

(* the less closure of sortArrayByKey *)
sortArrayByKeyLess(x, y, key) ==
    IF x.t # "obj" \/ y.t # "obj" THEN FALSE
    ELSE IF key \notin DOMAIN x.o \/ key \notin DOMAIN y.o THEN FALSE
    ELSE sortCompareValues(x.o[key], y.o[key]) < 0

(* the less closure of sortArray *)
sortArrayLess(x, y) == sortCompareValues(x, y) < 0

(* data.Less(i, j) of the slice being sorted, indices from 0; key = NoKey *)
(* selects sortArray's closure                                            *)
Less(data, i, j, key) ==
    IF key = NoKey THEN sortArrayLess(data[i + 1], data[j + 1])
    ELSE sortArrayByKeyLess(data[i + 1], data[j + 1], key)

(* data.Swap(i, j), indices from 0 *)
Swap(data, i, j) == [data EXCEPT ![i + 1] = data[j + 1], ![j + 1] = data[i + 1]]

----------------------------------------------------------------------------
(* sort.SliceStable, as sortArrayByKey and sortArray call it: the stable   *)
(* sort of Go's standard library (insertion sort on blocks of blockSize,   *)
(* then rounds of in-place symMerge).  It is written out because the less  *)
(* closure of sortArrayByKey is not a strict weak order, so the result is  *)
(* what this algorithm does and not "the" sorted order.                    *)

blockSize == 20

(* TRUE, once x has been computed: TLC computes an argument when it is    *)
(* first used, and a loop that only hands its slice on would pile up the  *)
(* swaps of all its iterations before computing any                       *)
Strict(x) == x = x

RECURSIVE insertionSortInner(_, _, _, _)
(* for j := i; j > a && data.Less(j, j-1); j-- { data.Swap(j, j-1) } *)
insertionSortInner(data, j, a, key) ==
    IF j > a /\ Less(data, j, j - 1, key)
    THEN insertionSortInner(Swap(data, j, j - 1), j - 1, a, key)
    ELSE data

RECURSIVE insertionSortFrom(_, _, _, _, _)
(* for i := a + 1; i < b; i++ { ... } *)
insertionSortFrom(data, i, a, b, key) ==
    IF Strict(data) /\ i < b
    THEN insertionSortFrom(insertionSortInner(data, i, a, key), i + 1, a, b, key)
    ELSE data

insertionSort(data, a, b, key) == insertionSortFrom(data, a + 1, a, b, key)

RECURSIVE swapRangeFrom(_, _, _, _, _)
swapRangeFrom(data, a, b, n, i) ==
    IF Strict(data) /\ i < n THEN swapRangeFrom(Swap(data, a + i, b + i), a, b, n, i + 1) ELSE data

(* for i := 0; i < n; i++ { data.Swap(a+i, b+i) } *)
swapRange(data, a, b, n) == swapRangeFrom(data, a, b, n, 0)

RECURSIVE rotateLoop(_, _, _, _)
rotateLoop(data, m, i, j) ==
    IF Strict(data) /\ i # j
    THEN IF i > j
         THEN rotateLoop(swapRange(data, m - i, m, j), m, i - j, j)
         ELSE rotateLoop(swapRange(data, m - i, m + j - i, i), m, i, j - i)
    ELSE swapRange(data, m - i, m, i)

(* rotate the blocks data[a:m] and data[m:b] *)
rotate(data, a, m, b) == rotateLoop(data, m, m - a, b - m)

RECURSIVE searchAfter(_, _, _, _, _)
(* lowest i in [m, b) with !Less(i, a), or b *)
searchAfter(data, i, j, a, key) ==
    IF i < j
    THEN LET h == (i + j) \div 2
         IN  IF Less(data, h, a, key)
             THEN searchAfter(data, h + 1, j, a, key)
             ELSE searchAfter(data, i, h, a, key)
    ELSE i

RECURSIVE searchBefore(_, _, _, _, _)
(* lowest i in [a, m) with Less(m, i), or m *)
searchBefore(data, i, j, m, key) ==
    IF i < j
    THEN LET h == (i + j) \div 2
         IN  IF ~Less(data, m, h, key)
             THEN searchBefore(data, h + 1, j, m, key)
             ELSE searchBefore(data, i, h, m, key)
    ELSE i

RECURSIVE searchSym(_, _, _, _, _)
searchSym(data, start, r, p, key) ==
    IF start < r
    THEN LET c == (start + r) \div 2
         IN  IF ~Less(data, p - c, c, key)
             THEN searchSym(data, c + 1, r, p, key)
             ELSE searchSym(data, start, c, p, key)
    ELSE start

RECURSIVE swapUp(_, _, _)
(* for k := a; k < i-1; k++ { data.Swap(k, k+1) } with lim = i-1 *)
swapUp(data, k, lim) ==
    IF Strict(data) /\ k < lim THEN swapUp(Swap(data, k, k + 1), k + 1, lim) ELSE data

RECURSIVE swapDown(_, _, _)
(* for k := m; k > i; k-- { data.Swap(k, k-1) } *)
swapDown(data, k, i) ==
    IF Strict(data) /\ k > i THEN swapDown(Swap(data, k, k - 1), k - 1, i) ELSE data

RECURSIVE symMerge(_, _, _, _, _)
(* merge the sorted runs data[a:m] and data[m:b] in place *)
symMerge(data, a, m, b, key) ==
    IF Strict(data) /\ m - a = 1
    THEN swapUp(data, a, searchAfter(data, m, b, a, key) - 1)
    ELSE IF b - m = 1
    THEN swapDown(data, m, searchBefore(data, a, m, m, key))
    ELSE LET mid == (a + b) \div 2
             n == mid + m
             start0 == IF m > mid THEN n - b ELSE a
             r == IF m > mid THEN mid ELSE m
             start == searchSym(data, start0, r, n - 1, key)
             end == n - start
             d1 == IF start < m /\ m < end THEN rotate(data, start, m, end) ELSE data
             d2 == IF a < start /\ start < mid THEN symMerge(d1, a, start, mid, key) ELSE d1
         IN  IF Strict(d2) /\ mid < end /\ end < b THEN symMerge(d2, mid, end, b, key) ELSE d2

RECURSIVE stableBlocks(_, _, _, _)
(* for b <= n { insertionSort(data, a, b); a = b; b += blockSize }; *)
(* insertionSort(data, a, n)                                        *)
stableBlocks(data, a, b, key) ==
    IF Strict(data) /\ b <= Len(data)
    THEN stableBlocks(insertionSort(data, a, b, key), b, b + blockSize, key)
    ELSE insertionSort(data, a, Len(data), key)

RECURSIVE stableMergePass(_, _, _, _, _)
stableMergePass(data, a, b, size, key) ==
    IF Strict(data) /\ b <= Len(data)
    THEN stableMergePass(symMerge(data, a, a + size, b, key), b, b + 2 * size, size, key)
    ELSE IF a + size < Len(data)
         THEN symMerge(data, a, a + size, Len(data), key)
         ELSE data

RECURSIVE stableMerge(_, _, _)
(* for blockSize < n { one pass of merges; blockSize *= 2 } *)
stableMerge(data, size, key) ==
    IF Strict(data) /\ size < Len(data)
    THEN stableMerge(stableMergePass(data, 0, 2 * size, size, key), 2 * size, key)
    ELSE data

(* sort.SliceStable(arr, less) *)
SliceStable(arr, key) == stableMerge(stableBlocks(arr, 0, blockSize, key), blockSize, key)

sortArrayByKey(arr, key) == SliceStable(arr, key)

sortArray(arr) == SliceStable(arr, NoKey)

----------------------------------------------------------------------------
(* internal/normalize/normalize.go: Value and its cases *)

(* normalizeNumber truncating every number, integral or not *)
normalizeNumberAlwaysTrunc(n, o) == IF ~o.NormalizeNumbers THEN n ELSE mathTrunc(n)

normalizeNumber(n, o) ==
    IF ~o.NormalizeNumbers THEN n
    ELSE IF n = mathTrunc(n) THEN mathTrunc(n)
    ELSE n

(* normalizeString trimming whatever the options say *)
normalizeStringAlwaysTrim(s, o) == stringsTrimSpace(s)

normalizeString(s, o) == IF o.TrimStrings THEN stringsTrimSpace(s) ELSE s

RECURSIVE Value(_, _)

(* normalizeObject normalizing the values only when SortKeys is set *)
normalizeObjectWhenSorting(obj, o) ==
    [key \in {k \in DOMAIN obj : ~(o.NullEqualsAbsent /\ obj[k] = Nil)} |->
        IF o.SortKeys THEN Value(obj[key], o) ELSE obj[key]]

(* normalizeObject without the test for null values *)
normalizeObjectKeepNulls(obj, o) == [key \in DOMAIN obj |-> Value(obj[key], o)]

normalizeObject(obj, o) ==
    [key \in {k \in DOMAIN obj : ~(o.NullEqualsAbsent /\ obj[k] = Nil)} |->
        Value(obj[key], o)]

(* normalizeArray testing SortArrays before SortArraysByKey *)
normalizeArraySortArraysFirst(arr, o) ==
    LET elems == Slice([i \in 1..Len(arr) |-> Value(arr[i], o)])
    IN  IF o.SortArrays THEN sortArray(elems)
        ELSE IF o.SortArraysByKey # NoKey THEN sortArrayByKey(elems, o.SortArraysByKey)
        ELSE elems

(* normalizeArray leaving out the null elements when NullEqualsAbsent is set *)
normalizeArrayDropNulls(arr, o) ==
    LET kept == IF o.NullEqualsAbsent THEN SelectSeq(arr, LAMBDA x : x # Nil) ELSE arr
        elems == Slice([i \in 1..Len(kept) |-> Value(kept[i], o)])
    IN  IF o.SortArraysByKey # NoKey THEN sortArrayByKey(elems, o.SortArraysByKey)
        ELSE IF o.SortArrays THEN sortArray(elems)
        ELSE elems

normalizeArray(arr, o) ==
    LET elems == Slice([i \in 1..Len(arr) |-> Value(arr[i], o)])
    IN  IF o.SortArraysByKey # NoKey THEN sortArrayByKey(elems, o.SortArraysByKey)
        ELSE IF o.SortArrays THEN sortArray(elems)
        ELSE elems

Value(v, o) ==
    CASE v.t = "obj" -> Obj(normalizeObject(v.o, o))
      [] v.t = "arr" -> Arr(normalizeArray(v.a, o))
      [] v.t = "num" -> Num(normalizeNumber(v.n, o))
      [] v.t = "str" -> Str(normalizeString(v.s, o))
      [] OTHER -> v

----------------------------------------------------------------------------
(* internal/diff/types.go *)

DiffEqual == "equal"

DiffAdded == "added"

DiffRemoved == "removed"

DiffChanged == "changed"

(* A DiffNode.  Left and Right are `any`: an unset field is Go's nil, the *)
(* same value a JSON null decodes to.  Children is a sequence of nodes.   *)
DiffNode(path, type, l, r, children) ==
    [Path |-> path, Type |-> type, Left |-> l, Right |-> r, Children |-> children]

DiffStats(added, removed, changed, equal) ==
    [Added |-> added, Removed |-> removed, Changed |-> changed, Equal |-> equal]

DiffResult(root, stats) == [Root |-> root, Stats |-> stats]

----------------------------------------------------------------------------
(* internal/diff/diff.go *)

RECURSIVE sortStrings(_)
(* sort.Strings on the distinct keys collected in allKeys *)
sortStrings(keys) ==
    IF keys = {} THEN <<>>
    ELSE LET first == CHOOSE k \in keys : \A other \in keys : stringsCompare(k, other) <= 0
         IN  <<first>> \o sortStrings(keys \ {first})

RECURSIVE Itoa(_)
(* the %d verb: decimal digits of a non-negative int *)
Itoa(i) ==
    LET digit == <<"0", "1", "2", "3", "4", "5", "6", "7", "8", "9">>[(i % 10) + 1]
    IN  IF i < 10 THEN <<digit>> ELSE Itoa(i \div 10) \o <<digit>>

(* the path of an object child written without the dot under the root *)
objectChildPathNoLeadingDot(path, key) ==
    IF path = <<>> THEN key ELSE path \o <<".">> \o key

(* fmt.Sprintf("%s.%s", path, key) *)
objectChildPath(path, key) == path \o <<".">> \o key

(* fmt.Sprintf("%s[%d]", path, i), i from 0 *)
arrayChildPath(path, i) == path \o <<"[">> \o Itoa(i) \o <<"]">>

RECURSIVE compareValues(_, _, _), compareObjects(_, _, _), compareArrays(_, _, _)

(* compareValues without its first case: two nulls fall to the left-nil case *)
compareValuesNoNilPair(l, r, path) ==
    IF l = Nil THEN DiffNode(path, DiffAdded, Nil, r, <<>>)
    ELSE IF r = Nil THEN DiffNode(path, DiffRemoved, l, Nil, <<>>)
    ELSE IF l.t = "obj" /\ r.t = "obj" THEN compareObjects(l.o, r.o, path)
    ELSE IF l.t = "arr" /\ r.t = "arr" THEN compareArrays(l.a, r.a, path)
    ELSE IF l.t # r.t THEN DiffNode(path, DiffChanged, l, r, <<>>)
    ELSE IF l = r THEN DiffNode(path, DiffEqual, Nil, Nil, <<>>)
    ELSE DiffNode(path, DiffChanged, l, r, <<>>)

(* compareValues with the two nil tests exchanged *)
compareValuesSwapped(l, r, path) ==
    IF l = Nil /\ r = Nil THEN DiffNode(path, DiffEqual, Nil, Nil, <<>>)
    ELSE IF r = Nil THEN DiffNode(path, DiffAdded, Nil, l, <<>>)
    ELSE IF l = Nil THEN DiffNode(path, DiffRemoved, r, Nil, <<>>)
    ELSE IF l.t = "obj" /\ r.t = "obj" THEN compareObjects(l.o, r.o, path)
    ELSE IF l.t = "arr" /\ r.t = "arr" THEN compareArrays(l.a, r.a, path)
    ELSE IF l.t # r.t THEN DiffNode(path, DiffChanged, l, r, <<>>)
    ELSE IF l = r THEN DiffNode(path, DiffEqual, Nil, Nil, <<>>)
    ELSE DiffNode(path, DiffChanged, l, r, <<>>)

(* compareValues without the type test: values of two types go to DeepEqual *)
(* and an equal pair keeps its values                                       *)
compareValuesKeepEqual(l, r, path) ==
    IF l = Nil /\ r = Nil THEN DiffNode(path, DiffEqual, Nil, Nil, <<>>)
    ELSE IF l = Nil THEN DiffNode(path, DiffAdded, Nil, r, <<>>)
    ELSE IF r = Nil THEN DiffNode(path, DiffRemoved, l, Nil, <<>>)
    ELSE IF l.t = "obj" /\ r.t = "obj" THEN compareObjects(l.o, r.o, path)
    ELSE IF l.t = "arr" /\ r.t = "arr" THEN compareArrays(l.a, r.a, path)
    ELSE IF l.t = r.t /\ l = r THEN DiffNode(path, DiffEqual, l, r, <<>>)
    ELSE DiffNode(path, DiffChanged, l, r, <<>>)

compareValues(l, r, path) ==
    IF l = Nil /\ r = Nil THEN DiffNode(path, DiffEqual, Nil, Nil, <<>>)
    ELSE IF l = Nil THEN DiffNode(path, DiffAdded, Nil, r, <<>>)
    ELSE IF r = Nil THEN DiffNode(path, DiffRemoved, l, Nil, <<>>)
    ELSE IF l.t = "obj" /\ r.t = "obj" THEN compareObjects(l.o, r.o, path)
    ELSE IF l.t = "arr" /\ r.t = "arr" THEN compareArrays(l.a, r.a, path)
    ELSE IF l.t # r.t THEN DiffNode(path, DiffChanged, l, r, <<>>)
    ELSE IF l = r THEN DiffNode(path, DiffEqual, Nil, Nil, <<>>)
    ELSE DiffNode(path, DiffChanged, l, r, <<>>)

(* compareObjects setting hasChanges only in the branch that recurses *)
compareObjectsRecursedOnly(l, r, path) ==
    LET sortedKeys == sortStrings(DOMAIN l \cup DOMAIN r)
        child(key) ==
            IF key \notin DOMAIN l
            THEN DiffNode(objectChildPath(path, key), DiffAdded, Nil, r[key], <<>>)
            ELSE IF key \notin DOMAIN r
            THEN DiffNode(objectChildPath(path, key), DiffRemoved, l[key], Nil, <<>>)
            ELSE compareValues(l[key], r[key], objectChildPath(path, key))
        children == Slice([i \in 1..Len(sortedKeys) |-> child(sortedKeys[i])])
        type == IF \E i \in 1..Len(children) :
                       /\ sortedKeys[i] \in DOMAIN l \cap DOMAIN r
                       /\ children[i].Type # DiffEqual
                THEN DiffChanged ELSE DiffEqual
    IN  DiffNode(path, type, Nil, Nil, children)

(* compareObjects walking the keys of the left map only *)
compareObjectsLeftKeys(l, r, path) ==
    LET sortedKeys == sortStrings(DOMAIN l)
        child(key) ==
            IF key \notin DOMAIN r
            THEN DiffNode(objectChildPath(path, key), DiffRemoved, l[key], Nil, <<>>)
            ELSE compareValues(l[key], r[key], objectChildPath(path, key))
        children == Slice([i \in 1..Len(sortedKeys) |-> child(sortedKeys[i])])
        type == IF \E i \in 1..Len(children) : children[i].Type # DiffEqual
                THEN DiffChanged ELSE DiffEqual
    IN  DiffNode(path, type, Nil, Nil, children)

compareObjects(l, r, path) ==
    LET sortedKeys == sortStrings(DOMAIN l \cup DOMAIN r)
        child(key) ==
            IF key \notin DOMAIN l
            THEN DiffNode(objectChildPath(path, key), DiffAdded, Nil, r[key], <<>>)
            ELSE IF key \notin DOMAIN r
            THEN DiffNode(objectChildPath(path, key), DiffRemoved, l[key], Nil, <<>>)
            ELSE compareValues(l[key], r[key], objectChildPath(path, key))
        children == Slice([i \in 1..Len(sortedKeys) |-> child(sortedKeys[i])])
        type == IF \E i \in 1..Len(children) : children[i].Type # DiffEqual
                THEN DiffChanged ELSE DiffEqual
    IN  DiffNode(path, type, Nil, Nil, children)

(* compareArrays stopping at the end of the shorter array *)
compareArraysShort(l, r, path) ==
    LET minLen == IF Len(r) < Len(l) THEN Len(r) ELSE Len(l)
        child(i) == compareValues(l[i + 1], r[i + 1], arrayChildPath(path, i))
        children == Slice([k \in 1..minLen |-> child(k - 1)])
        type == IF \E k \in 1..Len(children) : children[k].Type # DiffEqual
                THEN DiffChanged ELSE DiffEqual
    IN  DiffNode(path, type, Nil, Nil, children)

compareArrays(l, r, path) ==
    LET maxLen == IF Len(r) > Len(l) THEN Len(r) ELSE Len(l)
        child(i) ==
            IF i >= Len(l)
            THEN DiffNode(arrayChildPath(path, i), DiffAdded, Nil, r[i + 1], <<>>)
            ELSE IF i >= Len(r)
            THEN DiffNode(arrayChildPath(path, i), DiffRemoved, l[i + 1], Nil, <<>>)
            ELSE compareValues(l[i + 1], r[i + 1], arrayChildPath(path, i))
        children == Slice([k \in 1..maxLen |-> child(k - 1)])
        type == IF \E k \in 1..Len(children) : children[k].Type # DiffEqual
                THEN DiffChanged ELSE DiffEqual
    IN  DiffNode(path, type, Nil, Nil, children)

RECURSIVE walkAndCount(_, _), walkChildren(_, _, _)

(* walkAndCount without the test for children: every node is counted *)
walkAndCountEveryNode(stats, node) ==
    LET counted ==
            CASE node.Type = DiffEqual -> [stats EXCEPT !.Equal = @ + 1]
              [] node.Type = DiffAdded -> [stats EXCEPT !.Added = @ + 1]
              [] node.Type = DiffRemoved -> [stats EXCEPT !.Removed = @ + 1]
              [] node.Type = DiffChanged -> [stats EXCEPT !.Changed = @ + 1]
              [] OTHER -> stats
    IN  walkChildren(counted, node.Children, 1)

walkAndCount(stats, node) ==
    LET counted ==
            IF Len(node.Children) = 0
            THEN CASE node.Type = DiffEqual -> [stats EXCEPT !.Equal = @ + 1]
                   [] node.Type = DiffAdded -> [stats EXCEPT !.Added = @ + 1]
                   [] node.Type = DiffRemoved -> [stats EXCEPT !.Removed = @ + 1]
                   [] node.Type = DiffChanged -> [stats EXCEPT !.Changed = @ + 1]
                   [] OTHER -> stats
            ELSE stats
    IN  walkChildren(counted, node.Children, 1)

(* for _, child := range node.Children { walkAndCount(stats, child) } *)
walkChildren(stats, children, i) ==
    IF Strict(stats) /\ i > Len(children) THEN stats
    ELSE walkChildren(walkAndCount(stats, children[i]), children, i + 1)

(* calculateStats counting below the root only *)
calculateStatsOfChildren(node) == walkChildren(DiffStats(0, 0, 0, 0), node.Children, 1)

calculateStats(node) == walkAndCount(DiffStats(0, 0, 0, 0), node)

Compare(l, r) ==
    LET root == compareValues(l, r, <<>>)
    IN  DiffResult(root, calculateStats(root))

(* CompareWithOptions normalizing the left value only *)
CompareWithOptionsLeftOnly(l, r, o) ==
    LET leftNorm == Value(l, o)
        root == compareValues(leftNorm, r, <<>>)
    IN  DiffResult(root, calculateStats(root))

CompareWithOptions(l, r, o) ==
    LET leftNorm == Value(l, o)
        rightNorm == Value(r, o)
        root == compareValues(leftNorm, rightNorm, <<>>)
    IN  DiffResult(root, calculateStats(root))

----------------------------------------------------------------------------
(* internal/normalize/normalize.go once more, with the maps and slices in  *)
(* memory. A Go map[string]any or []any is a reference: mem holds the      *)
(* cells, an entry is a scalar or the address of a cell. make allocates a  *)
(* new cell, result[key] = x and result[i] = x write into a cell, and      *)
(* sort.SliceStable permutes the entries of the cell it is handed.         *)

Ref(at) == [t |-> "ref", at |-> at]

MapCell(o) == [t |-> "obj", o |-> o]

SliceCell(a) == [t |-> "arr", a |-> a]

(* the entries a cell holds *)
EntriesOf(cell) ==
    IF cell.t = "arr" THEN {cell.a[i] : i \in DOMAIN cell.a} ELSE {cell.o[k] : k \in DOMAIN cell.o}

RECURSIVE Load(_, _)
(* the JSON value an entry stands for *)
Load(heap, e) ==
    IF e.t # "ref" THEN e
    ELSE LET cell == heap[e.at]
         IN  IF cell.t = "arr"
             THEN Arr(Slice([i \in DOMAIN cell.a |-> Load(heap, cell.a[i])]))
             ELSE Obj([k \in DOMAIN cell.o |-> Load(heap, cell.o[k])])

RECURSIVE Reach(_, _)
(* the addresses of the cells an entry leads to *)
Reach(heap, e) ==
    IF e.t # "ref" THEN {}
    ELSE {e.at} \cup UNION {Reach(heap, x) : x \in EntriesOf(heap[e.at])}

RECURSIVE Store(_, _), StoreAll(_, _, _)
(* the decoded document v laid out in memory: [heap, e] *)
Store(heap, v) ==
    IF v.t = "arr"
    THEN LET s == StoreAll(heap, v.a, <<>>)
         IN  [heap |-> Append(s.heap, SliceCell(s.es)), e |-> Ref(Len(s.heap) + 1)]
    ELSE IF v.t = "obj"
    THEN LET keys == sortStrings(DOMAIN v.o)
             s == StoreAll(heap, [i \in 1..Len(keys) |-> v.o[keys[i]]], <<>>)
             o == [k \in DOMAIN v.o |-> s.es[CHOOSE i \in 1..Len(keys) : keys[i] = k]]
         IN  [heap |-> Append(s.heap, MapCell(o)), e |-> Ref(Len(s.heap) + 1)]
    ELSE [heap |-> heap, e |-> v]

StoreAll(heap, vs, es) ==
    IF vs = <<>> THEN [heap |-> heap, es |-> es]
    ELSE LET s == Store(heap, Head(vs))
         IN  StoreAll(s.heap, Tail(vs), Append(es, s.e))

(* sort.SliceStable on the slice at address at: the entries are permuted  *)
(* in place, compared through the values they stand for                   *)
sortAt(heap, at, key) ==
    LET data == Slice([i \in DOMAIN heap[at].a |->
                          [entry |-> heap[at].a[i]] @@ Load(heap, heap[at].a[i])])
        sorted == SliceStable(data, key)
    IN  [heap EXCEPT ![at].a = Slice([i \in DOMAIN sorted |-> sorted[i].entry])]

RECURSIVE ValueAt(_, _, _), objectLoop(_, _, _, _, _), arrayLoop(_, _, _, _, _)

(* for key, val := range obj { ... result[key] = Value(val, opts) }; the  *)
(* order of the range over a map is not fixed, and only decides which     *)
(* address each new cell gets                                             *)
objectLoop(heap, obj, res, keys, o) ==
    IF keys = <<>> THEN [heap |-> heap, e |-> Ref(res)]
    ELSE LET key == Head(keys)
             val == heap[obj].o[key]
         IN  IF o.NullEqualsAbsent /\ val = Nil
             THEN objectLoop(heap, obj, res, Tail(keys), o)
             ELSE LET sub == ValueAt(heap, val, o)
                      written == [sub.heap EXCEPT ![res].o = (key :> sub.e) @@ @]
                  IN  objectLoop(written, obj, res, Tail(keys), o)

normalizeObjectAt(heap, obj, o) ==
    LET res == Len(heap) + 1
    IN  objectLoop(Append(heap, MapCell(<<>>)), obj, res,
                   sortStrings(DOMAIN heap[obj].o), o)

(* for i, val := range arr { result[i] = Value(val, opts) } *)
arrayLoop(heap, arr, res, i, o) ==
    IF i > Len(heap[arr].a) THEN heap
    ELSE LET sub == ValueAt(heap, heap[arr].a[i], o)
         IN  arrayLoop([sub.heap EXCEPT ![res].a[i] = sub.e], arr, res, i + 1, o)

(* normalizeArray writing into the slice it was handed and returning it *)
normalizeArrayAtInPlace(heap, arr, o) ==
    LET filled == arrayLoop(heap, arr, arr, 1, o)
    IN  [heap |-> IF o.SortArraysByKey # NoKey THEN sortAt(filled, arr, o.SortArraysByKey)
                  ELSE IF o.SortArrays THEN sortAt(filled, arr, NoKey)
                  ELSE filled,
         e |-> Ref(arr)]

normalizeArrayAt(heap, arr, o) ==
    LET res == Len(heap) + 1
        made == Append(heap, SliceCell([i \in 1..Len(heap[arr].a) |-> Nil]))
        filled == arrayLoop(made, arr, res, 1, o)
    IN  [heap |-> IF o.SortArraysByKey # NoKey THEN sortAt(filled, res, o.SortArraysByKey)
                  ELSE IF o.SortArrays THEN sortAt(filled, res, NoKey)
                  ELSE filled,
         e |-> Ref(res)]

ValueAt(heap, e, o) ==
    CASE e.t = "ref" -> IF heap[e.at].t = "obj" THEN normalizeObjectAt(heap, e.at, o)
                        ELSE normalizeArrayAt(heap, e.at, o)
      [] e.t = "num" -> [heap |-> heap, e |-> Num(normalizeNumber(e.n, o))]
      [] e.t = "str" -> [heap |-> heap, e |-> Str(normalizeString(e.s, o))]
      [] OTHER -> [heap |-> heap, e |-> e]

----------------------------------------------------------------------------
(* The inputs: every JSON value of at most a given number of nodes over a  *)
(* set of scalars and the object keys Keys.                                *)

MaxNodes == 3

Keys == {<<"a">>, <<"b">>}

Scalars == {Nil, Bool(TRUE), Num(2), Num(3), Str(<<"a">>)}

RECURSIVE ValuesOfSize(_, _), SeqsOfSize(_, _), MapsOfSize(_, _, _)

(* the values with exactly n nodes (a scalar or a container counts one) *)
ValuesOfSize(S, n) ==
    IF n = 1 THEN S \cup {Arr(<<>>), Obj(<<>>)}
    ELSE {Arr(a) : a \in SeqsOfSize(S, n - 1)}
         \cup {Obj(o) : o \in MapsOfSize(S, n - 1, Keys)}

(* the sequences whose elements have m nodes in all *)
SeqsOfSize(S, m) ==
    IF m = 0 THEN {<<>>}
    ELSE UNION {{<<x>> \o rest : x \in ValuesOfSize(S, j), rest \in SeqsOfSize(S, m - j)} :
                j \in 1..m}

(* the maps on a subset of ks whose values have m nodes in all *)
MapsOfSize(S, m, ks) ==
    IF ks = {} THEN (IF m = 0 THEN {<<>>} ELSE {})
    ELSE LET k == CHOOSE key \in ks : TRUE
         IN  MapsOfSize(S, m, ks \ {k})
             \cup UNION {{(k :> x) @@ rest :
                            x \in ValuesOfSize(S, j), rest \in MapsOfSize(S, m - j, ks \ {k})} :
                         j \in 1..m}

ValuesUpTo(S, n) == UNION {ValuesOfSize(S, j) : j \in 1..n}

MaxPairNodes == 5

(* a document paired with itself *)
Diagonal(values) == {<<v, v>> : v \in values}

MaxLen == 3

(* the pairs of documents with at most n nodes between them *)
PairsUpTo(S, n) ==
    UNION {ValuesOfSize(S, ij[1]) \X ValuesOfSize(S, ij[2]) :
           ij \in {x \in (1..n) \X (1..n) : x[1] + x[2] <= n}}

(* the arrays of at most n scalars *)
FlatArrays(S, n) == {Arr(a) : a \in UNION {[1..k -> S] : k \in 0..n}}

MaxIndex == 10

(* the array of n ones *)
Ones(n) == Arr([i \in 1..n |-> Num(2)])

(* arrays whose last index is MaxIndex, against themselves and against an *)
(* array one element shorter                                               *)
LongPairs == {<<Ones(MaxIndex + 1), Ones(n)>> : n \in {MaxIndex, MaxIndex + 1}}

(* {"a": [{}, {"b": x}]}, the shape of the document of TestComparePaths *)
Deep(x) == Obj((<<"a">> :> Arr(<<Obj(<<>>), Obj((<<"b">> :> x))>>)))

DeepPairs == {<<Deep(x), Deep(y)>> : x, y \in Scalars}

CompareInputs ==
    PairsUpTo(Scalars, MaxPairNodes)
    \cup Diagonal(ValuesUpTo(Scalars, MaxNodes + 1))
    \cup (FlatArrays(Scalars, MaxLen) \X FlatArrays(Scalars, MaxLen))
    \cup LongPairs
    \cup DeepPairs

----------------------------------------------------------------------------
(* The state machine: a caller holding two decoded documents and a set of  *)
(* options calls one of the package functions; pc records which one ran.   *)

NoNode == DiffNode(<<>>, "none", Nil, Nil, <<>>)

NoResult == DiffResult(NoNode, DiffStats(0, 0, 0, 0))

(* a nil error *)
NoError == "nil"

(* nothing allocated *)
NoMem == [before |-> <<>>, in |-> Nil, after |-> <<>>, out |-> Nil]

(* no analysis under way, no history store, nothing to compare *)
NoScan == [lines |-> <<>>]

NoHistory == [entries |-> <<>>]

NoComparison == [Comparisons |-> <<>>]

Elsewhere == scan = NoScan /\ hist = NoHistory /\ cmp = NoComparison

Start(pairs, options) ==
    /\ \E p \in pairs : left = p[1] /\ right = p[2]
    /\ opts \in options
    /\ pc = "ready"
    /\ norm = Nil
    /\ renorm = Nil
    /\ result = NoResult
    /\ leftJSON = <<>>
    /\ rightJSON = <<>>
    /\ err = NoError
    /\ mem = NoMem
    /\ Elsewhere

(* first := normalize.Value(data, opts) *)
CallValue ==
    /\ pc = "ready"
    /\ norm' = Value(left, opts)
    /\ pc' = "normalized"
    /\ UNCHANGED <<left, right, opts, renorm, result, appVars, mem, extVars>>

(* second := normalize.Value(first, opts) *)
CallValueAgain ==
    /\ pc = "normalized"
    /\ renorm' = Value(norm, opts)
    /\ pc' = "renormalized"
    /\ UNCHANGED <<left, right, opts, norm, result, appVars, mem, extVars>>

(* result := diff.Compare(left, right) *)
CallCompare ==
    /\ pc = "ready"
    /\ result' = Compare(left, right)
    /\ pc' = "compared"
    /\ UNCHANGED <<left, right, opts, norm, renorm, appVars, mem, extVars>>

(* result := diff.CompareWithOptions(left, right, opts) *)
CallCompareWithOptions ==
    /\ pc = "ready"
    /\ result' = CompareWithOptions(left, right, opts)
    /\ pc' = "comparedWithOptions"
    /\ UNCHANGED <<left, right, opts, norm, renorm, appVars, mem, extVars>>

Init == Start(CompareInputs, {NoNormalization})

Next == CallCompare

Spec == Init /\ [][Next]_vars

----------------------------------------------------------------------------
(* The normalizer on its own: one document, every combination of options. *)

MaxTail == 2

AllOptions ==
    [SortKeys : BOOLEAN, NormalizeNumbers : BOOLEAN, TrimStrings : BOOLEAN,
     NullEqualsAbsent : BOOLEAN, SortArrays : BOOLEAN,
     SortArraysByKey : {NoKey} \cup Keys]

NormalizeScalars == Scalars \cup {Str(<<" ", "a">>)}

(* a run of blockSize equal objects, the length sort.SliceStable sorts as one block *)
Block == [i \in 1..blockSize |-> Obj((<<"a">> :> Num(3)))]

TailElements ==
    {Nil, Num(2), Str(<<"a">>)} \cup {Obj((k :> x)) : k \in Keys, x \in {Num(2), Num(3)}}

Tails == UNION {[1..n -> TailElements] : n \in 0..MaxTail}

(* arrays longer than one block: the run followed by a short tail *)
LongArrays == {Arr(Block \o tail) : tail \in Tails}

NormalizeInputs == ValuesUpTo(NormalizeScalars, MaxNodes) \cup LongArrays

(* short arrays of every kind of element, for the options that touch arrays *)
SortElements ==
    {Nil, Bool(FALSE), Bool(TRUE), Num(2), Num(3), Str(<<"a">>), Str(<<"b">>),
     Arr(<<>>), Arr(<<Nil>>), Obj(<<>>), Obj((<<"a">> :> Num(2))), Obj((<<"a">> :> Num(3))),
     Obj((<<"a">> :> Num(2)) @@ (<<"b">> :> Num(2))), Obj((<<"a">> :> Nil))}

SortInputs == FlatArrays(SortElements, MaxLen)

SortOptions ==
    [SortKeys : {FALSE}, NormalizeNumbers : {FALSE}, TrimStrings : {FALSE},
     NullEqualsAbsent : BOOLEAN, SortArrays : BOOLEAN,
     SortArraysByKey : {NoKey} \cup Keys]

InitNormalize ==
    \/ Start(NormalizeInputs \X {Nil}, AllOptions)
    \/ Start(SortInputs \X {Nil}, SortOptions)

NextNormalize == CallValue \/ CallValueAgain

SpecNormalize == InitNormalize /\ [][NextNormalize]_vars

----------------------------------------------------------------------------
(* The normalizer in memory: the document is laid out in cells, Value is   *)
(* called on it, and the caller then writes into a container of the        *)
(* result.                                                                  *)

HeapElements ==
    {Nil, Num(2), Str(<<" ", "a">>), Arr(<<Num(2)>>),
     Obj((<<"a">> :> Num(2))), Obj((<<"a">> :> Num(3)) @@ (<<"b">> :> Nil))}

HeapInputs == ValuesUpTo(NormalizeScalars, MaxNodes) \cup FlatArrays(HeapElements, MaxLen)

InitHeap ==
    /\ left \in HeapInputs
    /\ right = Nil
    /\ opts \in IF left \in FlatArrays(HeapElements, MaxLen) THEN SortOptions ELSE AllOptions
    /\ pc = "ready"
    /\ norm = Nil
    /\ renorm = Nil
    /\ result = NoResult
    /\ leftJSON = <<>>
    /\ rightJSON = <<>>
    /\ err = NoError
    /\ mem = LET stored == Store(<<>>, left)
             IN  [before |-> stored.heap, in |-> stored.e,
                  after |-> stored.heap, out |-> Nil]
    /\ Elsewhere

(* out := normalize.Value(in, opts), on the cells *)
CallValueAt ==
    /\ pc = "ready"
    /\ LET r == ValueAt(mem.before, mem.in, opts)
       IN  /\ mem' = [mem EXCEPT !.after = r.heap, !.out = r.e]
           /\ norm' = Load(r.heap, r.e)
    /\ pc' = "normalizedAt"
    /\ UNCHANGED <<left, right, opts, renorm, result, appVars, extVars>>

(* the caller writes into a map or a slice of the result: out[...] = "b" *)
ChangeResult ==
    /\ pc = "normalizedAt"
    /\ \E at \in Reach(mem.after, mem.out) :
           LET cell == mem.after[at]
           IN  IF cell.t = "obj"
               THEN mem' = [mem EXCEPT !.after[at].o = (<<"b">> :> Str(<<"b">>)) @@ @]
               ELSE /\ cell.a # <<>>
                    /\ mem' = [mem EXCEPT !.after[at].a[1] = Str(<<"b">>)]
    /\ pc' = "resultChanged"
    /\ UNCHANGED <<left, right, opts, norm, renorm, result, appVars, extVars>>

NextHeap == CallValueAt \/ ChangeResult

SpecHeap == InitHeap /\ [][NextHeap]_vars

----------------------------------------------------------------------------
(* The App methods CompareJSON and CompareJSONWithOptions: both texts go   *)
(* through json.Unmarshal into the locals left and right, left first, and  *)
(* the first decode error is returned in place of a result.                *)
(* A text is a sequence of characters. The decoder follows the JSON        *)
(* grammar json.Unmarshal checks before it stores anything: blanks around  *)
(* every token, the literals null, true and false, numbers with a sign and *)
(* a fraction, strings without escapes, arrays and objects. Numbers are    *)
(* held in halves, as everywhere in this module; the texts of the model    *)
(* carry no exponent and no escape.                                        *)

Failed == [ok |-> FALSE, v |-> Nil, rest |-> <<>>]

Parsed(v, rest) == [ok |-> TRUE, v |-> v, rest |-> rest]

isSpace(c) == c \in Blanks

DigitValue ==
    ("0" :> 0) @@ ("1" :> 1) @@ ("2" :> 2) @@ ("3" :> 3) @@ ("4" :> 4) @@
    ("5" :> 5) @@ ("6" :> 6) @@ ("7" :> 7) @@ ("8" :> 8) @@ ("9" :> 9)

HasPrefix(s, prefix) ==
    Len(s) >= Len(prefix) /\ SubSeq(s, 1, Len(prefix)) = prefix

Drop(s, n) == SubSeq(s, n + 1, Len(s))

RECURSIVE skipSpace(_)
skipSpace(s) ==
    IF s # <<>> /\ isSpace(Head(s)) THEN skipSpace(Tail(s)) ELSE s

RECURSIVE Pow10(_)
Pow10(n) == IF n = 0 THEN 1 ELSE 10 * Pow10(n - 1)

RECURSIVE scanDigits(_, _, _)
(* the run of digits s starts with: its value, its length, what follows *)
scanDigits(s, n, count) ==
    IF s # <<>> /\ Head(s) \in DOMAIN DigitValue
    THEN scanDigits(Tail(s), 10 * n + DigitValue[Head(s)], count + 1)
    ELSE [n |-> n, count |-> count, rest |-> s]

(* an optional minus, digits without a leading zero unless the digit is *)
(* the single 0, and optionally a point followed by at least one digit   *)
scanNumber(s) ==
    LET neg == s # <<>> /\ Head(s) = "-"
        t == IF neg THEN Tail(s) ELSE s
        int == scanDigits(t, 0, 0)
        hasFrac == int.rest # <<>> /\ Head(int.rest) = "."
        frac == IF hasFrac THEN scanDigits(Tail(int.rest), 0, 0)
                ELSE [n |-> 0, count |-> 0, rest |-> int.rest]
        halves == 2 * int.n + ((2 * frac.n) \div Pow10(frac.count))
    IN  IF int.count = 0 THEN Failed
        ELSE IF int.count > 1 /\ Head(t) = "0" THEN Failed
        ELSE IF hasFrac /\ frac.count = 0 THEN Failed
        ELSE Parsed(Num(IF neg THEN 0 - halves ELSE halves), frac.rest)

RECURSIVE scanString(_, _)
(* s follows an opening quote; chars are the characters read so far *)
scanString(s, chars) ==
    IF s = <<>> THEN Failed
    ELSE IF Head(s) = "\"" THEN Parsed(Str(chars), Tail(s))
    ELSE scanString(Tail(s), Append(chars, Head(s)))

scanLiteral(s, word, v) ==
    IF HasPrefix(s, word) THEN Parsed(v, Drop(s, Len(word))) ELSE Failed

RECURSIVE scanValue(_), scanElements(_, _), scanMembers(_, _)

scanValue(text) ==
    LET s == skipSpace(text)
    IN  IF s = <<>> THEN Failed
        ELSE CASE Head(s) = "n" -> scanLiteral(s, <<"n", "u", "l", "l">>, Nil)
               [] Head(s) = "t" -> scanLiteral(s, <<"t", "r", "u", "e">>, Bool(TRUE))
               [] Head(s) = "f" -> scanLiteral(s, <<"f", "a", "l", "s", "e">>, Bool(FALSE))
               [] Head(s) = "\"" -> scanString(Tail(s), <<>>)
               [] Head(s) = "[" ->
                      LET t == skipSpace(Tail(s))
                      IN  IF t # <<>> /\ Head(t) = "]" THEN Parsed(Arr(<<>>), Tail(t))
                          ELSE scanElements(t, <<>>)
               [] Head(s) = "{" ->
                      LET t == skipSpace(Tail(s))
                      IN  IF t # <<>> /\ Head(t) = "}" THEN Parsed(Obj(<<>>), Tail(t))
                          ELSE scanMembers(t, <<>>)
               [] Head(s) = "-" \/ Head(s) \in DOMAIN DigitValue -> scanNumber(s)
               [] OTHER -> Failed

(* value (, value)* ] *)
scanElements(s, elems) ==
    LET e == scanValue(s)
        t == skipSpace(e.rest)
    IN  IF ~e.ok \/ t = <<>> THEN Failed
        ELSE IF Head(t) = "," THEN scanElements(Tail(t), Append(elems, e.v))
        ELSE IF Head(t) = "]" THEN Parsed(Arr(Append(elems, e.v)), Tail(t))
        ELSE Failed

(* string : value (, string : value)* }; a key met twice keeps its last value *)
scanMembers(text, members) ==
    LET s == skipSpace(text)
        k == IF s # <<>> /\ Head(s) = "\"" THEN scanString(Tail(s), <<>>) ELSE Failed
        c == skipSpace(k.rest)
        e == IF c # <<>> /\ Head(c) = ":" THEN scanValue(Tail(c)) ELSE Failed
        t == skipSpace(e.rest)
        m == (k.v.s :> e.v) @@ members
    IN  IF ~k.ok \/ ~e.ok \/ t = <<>> THEN Failed
        ELSE IF Head(t) = "," THEN scanMembers(Tail(t), m)
        ELSE IF Head(t) = "}" THEN Parsed(Obj(m), Tail(t))
        ELSE Failed

(* err := json.Unmarshal([]byte(text), &v) with var v any: v stays nil on *)
(* an error                                                               *)
jsonUnmarshal(text) ==
    LET r == scanValue(text)
    IN  IF r.ok /\ skipSpace(r.rest) = <<>> THEN [ok |-> TRUE, v |-> r.v]
        ELSE [ok |-> FALSE, v |-> Nil]

(* normalizeOpts := normalize.Options{SortKeys: opts.SortKeys, ...} *)
normalizeOpts(o) ==
    [SortKeys |-> o.SortKeys, NormalizeNumbers |-> o.NormalizeNumbers,
     TrimStrings |-> o.TrimStrings, NullEqualsAbsent |-> o.NullEqualsAbsent,
     SortArrays |-> o.SortArrays, SortArraysByKey |-> o.SortArraysByKey]

(* the error the two decodes end in, right text first *)
decodeErrorRightFirst(l, r) ==
    IF ~jsonUnmarshal(r).ok THEN "invalid right JSON"
    ELSE IF ~jsonUnmarshal(l).ok THEN "invalid left JSON"
    ELSE NoError

(* the error the two decodes end in: the left text is decoded first, and *)
(* the right text only when the left one decoded                         *)
decodeError(l, r) ==
    IF ~jsonUnmarshal(l).ok THEN "invalid left JSON"
    ELSE IF ~jsonUnmarshal(r).ok THEN "invalid right JSON"
    ELSE NoError

MaxText == 3

TextChars == {"[", "]", "1", ",", " "}

RECURSIVE TextsOfLen(_)
TextsOfLen(n) ==
    IF n = 0 THEN {<<>>}
    ELSE {Append(t, c) : t \in TextsOfLen(n - 1), c \in TextChars}

(* texts the short ones do not reach: literals and their beginnings,      *)
(* strings, objects, fractions, a sign, a leading zero                    *)
LongTexts ==
    {<<"n", "u", "l", "l">>, <<"n", "u", "l">>, <<" ", "n", "u", "l", "l", " ">>,
     <<"t", "r", "u", "e">>, <<"f", "a", "l", "s", "e">>, <<"f", "a", "l", "s">>,
     <<"\"", "a", "\"">>, <<"\"", "a">>, <<"a">>,
     <<"{", "}">>, <<"{", "\"", "a", "\"", ":", "1", "}">>,
     <<"{", "\"", "a", "\"", ":", "n", "u", "l", "l", "}">>,
     <<"{", "\"", "a", "\"", ":", "1", ",", "}">>,
     <<"{", "\"", "a", "\"", "1", "}">>, <<"{", "a", ":", "1", "}">>,
     <<"{", "\"", "a", "\"", ":", "1", ",", "\"", "a", "\"", ":", "n", "u", "l", "l", "}">>,
     <<"[", "n", "u", "l", "l", "]">>, <<"[", "1", ",", "1", ".", "5", "]">>,
     <<"1", ".", "5">>, <<"1", ".", "0">>, <<"1", ".">>, <<".", "5">>,
     <<"-", "1">>, <<"-">>, <<"0">>, <<"0", "1">>, <<"1", " ", "1">>}

Texts == UNION {TextsOfLen(n) : n \in 0..MaxText} \cup LongTexts

AppOptions == {NoNormalization, DefaultOptions}

InitApp ==
    /\ leftJSON \in Texts
    /\ rightJSON \in Texts
    /\ opts \in AppOptions
    /\ left = Nil
    /\ right = Nil
    /\ pc = "ready"
    /\ norm = Nil
    /\ renorm = Nil
    /\ result = NoResult
    /\ err = NoError
    /\ mem = NoMem
    /\ Elsewhere

(* var left any; var right any: right is decoded only after left did *)
Decode ==
    /\ left' = jsonUnmarshal(leftJSON).v
    /\ right' = IF jsonUnmarshal(leftJSON).ok THEN jsonUnmarshal(rightJSON).v ELSE Nil
    /\ err' = decodeError(leftJSON, rightJSON)

CallCompareJSON ==
    /\ pc = "ready"
    /\ Decode
    /\ result' = IF err' = NoError THEN Compare(left', right') ELSE NoResult
    /\ pc' = "returnedJSON"
    /\ UNCHANGED <<opts, norm, renorm, leftJSON, rightJSON, mem, extVars>>

CallCompareJSONWithOptions ==
    /\ pc = "ready"
    /\ Decode
    /\ result' = IF err' = NoError THEN CompareWithOptions(left', right', normalizeOpts(opts))
                 ELSE NoResult
    /\ pc' = "returnedJSONWithOptions"
    /\ UNCHANGED <<opts, norm, renorm, leftJSON, rightJSON, mem, extVars>>

NextApp == CallCompareJSON \/ CallCompareJSONWithOptions

SpecApp == InitApp /\ [][NextApp]_vars

----------------------------------------------------------------------------
(* internal/loganalyzer: AnalyzeString and AnalyzeFile.  Both run the same *)
(* loop over the lines of their input; AnalyzeString passes over empty     *)
(* lines without counting them.  scan holds the locals of the function in  *)
(* the middle of the loop: the lines, the index of the next one, the       *)
(* accumulator, inMultiLine, the counters and the three tallies.           *)
(* pathValueFreq[path][v] is kept as a function on the pairs <<path, v>>.  *)

maxAccumulatorSize == 1048576

RECURSIVE builderLen(_)
(* accumulator.Len(): the number of bytes written *)
builderLen(text) ==
    IF text = <<>> THEN 0
    ELSE (IF Head(text) = BlankRun THEN RunLen ELSE 1) + builderLen(Tail(text))

(* valueToString of a leaf; a number is below 10^6, where %g writes no   *)
(* exponent                                                               *)
valueToString(v) ==
    CASE v.t = "null" -> <<"<", "n", "u", "l", "l", ">">>
      [] v.t = "str" -> IF v.s = <<>> THEN <<"<", "e", "m", "p", "t", "y", ">">> ELSE v.s
      [] v.t = "num" ->
             (IF v.n < 0 THEN <<"-">> ELSE <<>>)
                 \o Itoa((IF v.n < 0 THEN 0 - v.n ELSE v.n) \div 2)
                 \o (IF v.n % 2 = 0 THEN <<>> ELSE <<".", "5">>)
      [] v.t = "bool" -> IF v.b THEN <<"t", "r", "u", "e">> ELSE <<"f", "a", "l", "s", "e">>

RECURSIVE extractPathsWithValues(_, _), extractEach(_, _, _)
(* the leaves under value, each with its path and its value as a string; *)
(* the order in which a map is ranged over does not reach the tallies     *)
extractPathsWithValues(prefix, value) ==
    CASE value.t = "obj" -> extractEach(prefix, value, sortStrings(DOMAIN value.o))
      [] value.t = "arr" -> extractEach(prefix, value, [i \in DOMAIN value.a |-> i])
      [] OTHER -> <<[path |-> prefix, value |-> valueToString(value)]>>

extractEach(prefix, value, at) ==
    IF at = <<>> THEN <<>>
    ELSE (IF value.t = "obj"
          THEN extractPathsWithValues(prefix \o <<".">> \o Head(at), value.o[Head(at)])
          ELSE extractPathsWithValues(prefix \o <<"[", "]">>, value.a[Head(at)]))
         \o extractEach(prefix, value, Tail(at))

(* m[k] of a Go map of ints: 0 for a key that is not there *)
At(m, k) == IF k \in DOMAIN m THEN m[k] ELSE 0

(* the processJSON closure *)
processJSON(sc, data) ==
    LET found == extractPathsWithValues(<<"$">>, data)
        paths == {found[i].path : i \in DOMAIN found}
        pairs == {<<found[i].path, found[i].value>> : i \in DOMAIN found}
        values(path) == Cardinality({i \in DOMAIN found : found[i].path = path})
        times(pair) == Cardinality({i \in DOMAIN found : <<found[i].path, found[i].value>> = pair})
    IN  [sc EXCEPT
            !.jsonLines = @ + 1,
            !.pathCounts = [path \in DOMAIN sc.pathCounts \cup paths |->
                               At(sc.pathCounts, path) + values(path)],
            !.pathObjects = [path \in DOMAIN sc.pathObjects \cup paths |->
                                At(sc.pathObjects, path) + (IF path \in paths THEN 1 ELSE 0)],
            !.pathValueFreq = [pair \in DOMAIN sc.pathValueFreq \cup pairs |->
                                  At(sc.pathValueFreq, pair) + times(pair)]]

(* the loop body taking a line for the start of a document only when the *)
(* line opens an object                                                   *)
scanLineObjectsOnly(sc, line) ==
    IF ~sc.file /\ line = <<>> THEN sc
    ELSE IF sc.inMultiLine
    THEN IF jsonUnmarshal(sc.accumulator \o <<"\n">> \o line).ok
         THEN [processJSON(sc, jsonUnmarshal(sc.accumulator \o <<"\n">> \o line).v)
                  EXCEPT !.totalLines = @ + 1, !.accumulator = <<>>, !.inMultiLine = FALSE]
         ELSE IF builderLen(sc.accumulator \o <<"\n">> \o line) > maxAccumulatorSize
         THEN [sc EXCEPT !.totalLines = @ + 1, !.accumulator = <<>>, !.inMultiLine = FALSE]
         ELSE [sc EXCEPT !.totalLines = @ + 1, !.accumulator = @ \o <<"\n">> \o line]
    ELSE IF jsonUnmarshal(line).ok
    THEN [processJSON(sc, jsonUnmarshal(line).v) EXCEPT !.totalLines = @ + 1]
    ELSE IF HasPrefix(stringsTrimSpace(line), <<"{">>)
    THEN [sc EXCEPT !.totalLines = @ + 1, !.accumulator = @ \o line, !.inMultiLine = TRUE]
    ELSE [sc EXCEPT !.totalLines = @ + 1]

(* the body of the loop over the lines *)
scanLine(sc, line) ==
    IF ~sc.file /\ line = <<>> THEN sc
    ELSE IF sc.inMultiLine
    THEN IF jsonUnmarshal(sc.accumulator \o <<"\n">> \o line).ok
         THEN [processJSON(sc, jsonUnmarshal(sc.accumulator \o <<"\n">> \o line).v)
                  EXCEPT !.totalLines = @ + 1, !.accumulator = <<>>, !.inMultiLine = FALSE]
         ELSE IF builderLen(sc.accumulator \o <<"\n">> \o line) > maxAccumulatorSize
         THEN [sc EXCEPT !.totalLines = @ + 1, !.accumulator = <<>>, !.inMultiLine = FALSE]
         ELSE [sc EXCEPT !.totalLines = @ + 1, !.accumulator = @ \o <<"\n">> \o line]
    ELSE IF jsonUnmarshal(line).ok
    THEN [processJSON(sc, jsonUnmarshal(line).v) EXCEPT !.totalLines = @ + 1]
    ELSE IF HasPrefix(stringsTrimSpace(line), <<"{">>) \/ HasPrefix(stringsTrimSpace(line), <<"[">>)
    THEN [sc EXCEPT !.totalLines = @ + 1, !.accumulator = @ \o line, !.inMultiLine = TRUE]
    ELSE [sc EXCEPT !.totalLines = @ + 1]

RECURSIVE getTopValues(_, _)
(* the n most frequent values of freqs, by count descending, then value  *)
(* ascending                                                              *)
getTopValues(freqs, n) ==
    IF DOMAIN freqs = {} \/ n = 0 THEN <<>>
    ELSE LET first == CHOOSE v \in DOMAIN freqs : \A w \in DOMAIN freqs :
                          \/ freqs[v] > freqs[w]
                          \/ freqs[v] = freqs[w] /\ stringsCompare(v, w) <= 0
         IN  <<[Value |-> first, Count |-> freqs[first]]>>
                 \o getTopValues([w \in DOMAIN freqs \ {first} |-> freqs[w]], n - 1)

(* PathSummary{...} of one path *)
PathSummary(sc, path) ==
    LET valueFreqs == [v \in {pair[2] : pair \in {q \in DOMAIN sc.pathValueFreq : q[1] = path}} |->
                          sc.pathValueFreq[<<path, v>>]]
    IN  [Path |-> path, Count |-> sc.pathCounts[path], ObjectHits |-> sc.pathObjects[path],
         DistinctCount |-> Cardinality(DOMAIN valueFreqs),
         TopValues |-> getTopValues(valueFreqs, 10)]

RECURSIVE sortPaths(_)
(* sort.Slice(paths, ...): by count descending, then path ascending *)
sortPaths(paths) ==
    IF paths = {} THEN <<>>
    ELSE LET first == CHOOSE p \in paths : \A q \in paths :
                          \/ p.Count > q.Count
                          \/ p.Count = q.Count /\ stringsCompare(p.Path, q.Path) <= 0
         IN  <<first>> \o sortPaths(paths \ {first})

RECURSIVE SumOf(_, _)
SumOf(m, keys) ==
    IF keys = {} THEN 0
    ELSE LET k == CHOOSE x \in keys : TRUE IN m[k] + SumOf(m, keys \ {k})

(* &AnalysisResult{...} *)
AnalysisResult(sc) ==
    [Paths |-> sortPaths({PathSummary(sc, path) : path \in DOMAIN sc.pathCounts}),
     TotalLines |-> sc.totalLines,
     JSONLines |-> sc.jsonLines,
     SkippedLines |-> sc.totalLines - sc.jsonLines,
     TotalPaths |-> Cardinality(DOMAIN sc.pathCounts),
     TotalPathOccurs |-> SumOf(sc.pathCounts, DOMAIN sc.pathCounts)]

NoAnalysis == [Paths |-> <<>>, TotalLines |-> -1]

MaxLines == 4

LogLines ==
    {<<>>, <<"x">>, <<"[", "x", "]", " ", "x">>, <<" ", "{", "x">>,
     <<"{", "\"", "a", "\"", ":", "1", "}">>, <<"1">>,
     <<"{">>, <<"\"", "a", "\"", ":", "1">>, <<"}">>,
     <<"[">>, <<"]">>, <<BlankRun>>}

Logs == UNION {[1..n -> LogLines] : n \in 0..MaxLines}

InitAnalyze ==
    /\ scan \in [file : BOOLEAN, lines : Logs, at : {1}, accumulator : {<<>>},
                 inMultiLine : {FALSE}, totalLines : {0}, jsonLines : {0},
                 pathCounts : {<<>>}, pathObjects : {<<>>}, pathValueFreq : {<<>>},
                 analysis : {NoAnalysis}]
    /\ pc = "scanning"
    /\ left = Nil
    /\ right = Nil
    /\ opts = NoNormalization
    /\ norm = Nil
    /\ renorm = Nil
    /\ result = NoResult
    /\ leftJSON = <<>>
    /\ rightJSON = <<>>
    /\ err = NoError
    /\ mem = NoMem
    /\ hist = NoHistory
    /\ cmp = NoComparison

(* one turn of the loop: the next line is read *)
ScanLine ==
    /\ pc = "scanning"
    /\ scan.at <= Len(scan.lines)
    /\ scan' = [scanLine(scan, scan.lines[scan.at]) EXCEPT !.at = @ + 1]
    /\ UNCHANGED <<left, right, opts, pc, norm, renorm, result, appVars, mem, hist, cmp>>

(* the input is at its end: the summaries are built and returned *)
ReturnAnalysis ==
    /\ pc = "scanning"
    /\ scan.at > Len(scan.lines)
    /\ scan' = [scan EXCEPT !.analysis = AnalysisResult(scan)]
    /\ pc' = "analyzed"
    /\ UNCHANGED <<left, right, opts, norm, renorm, result, appVars, mem, hist, cmp>>

NextAnalyze == ScanLine \/ ReturnAnalysis

SpecAnalyze == InitAnalyze /\ [][NextAnalyze]_vars

(***************************************************************************)
(* The file history store (package storage).  A slice is a window of      *)
(* len elements on a backing array; h.Paths maps a key to its slice, a    *)
(* key that was never added to has none.  The calls of Procs goroutines   *)
(* on one FileHistory interleave at the steps between the lock            *)
(* operations of h.mu.                                                     *)
(***************************************************************************)
maxHistoryPerKey == 10

HistoryKeys == {"diff-left", "diff-right"}

Procs == {1, 2}

MaxCalls == 3

MaxStored == 10

NilSlice == [arr |-> 0, len |-> 0]

NoPaths == [key \in {} |-> NilSlice]

NoArrays == [a \in {} |-> <<>>]

(* a goroutine that is in none of the calls *)
Idle ==
    [pc |-> "idle", op |-> "", key |-> "", path |-> <<>>, paths |-> NilSlice,
     result |-> NilSlice, recent |-> <<>>, old |-> <<>>, seen |-> <<>>]

(* &FileHistory{Paths: make(map[string][]string)}, nobody holding h.mu *)
NewFileHistory ==
    [Paths |-> NoPaths, arrays |-> NoArrays, mu |-> [w |-> 0, r |-> {}],
     calls |-> <<>>, proc |-> [p \in Procs |-> Idle], started |-> 0]

(* the elements of a slice *)
Elements(h, s) == IF s.arr = 0 THEN <<>> ELSE SubSeq(h.arrays[s.arr], 1, s.len)

(* h.Paths[key] read as a list, for every key *)
Lists(h) ==
    [key \in HistoryKeys |->
        IF key \in DOMAIN h.Paths THEN Elements(h, h.Paths[key]) ELSE <<>>]

(* a backing array nobody uses yet *)
newArray(h) ==
    CHOOSE a \in 1..(Cardinality(DOMAIN h.arrays) + 1) : a \notin DOMAIN h.arrays

(* the garbage collector: backing arrays no slice refers to are gone *)
collect(h) ==
    LET live == {h.Paths[key].arr : key \in DOMAIN h.Paths}
                    \cup {h.proc[p].paths.arr : p \in Procs}
                    \cup {h.proc[p].result.arr : p \in Procs}
    IN  [h EXCEPT !.arrays = [a \in DOMAIN h.arrays \cap live |-> h.arrays[a]]]

(* h.mu.Lock() and h.mu.RLock() can proceed *)
canLock(h) == h.mu.w = 0 /\ h.mu.r = {}

canRLockAlways(h) == TRUE

canRLock(h) == h.mu.w = 0

(* Add up to the lock taken *)
addLock(h, p, key, path) ==
    [h EXCEPT !.mu.w = p, !.started = @ + 1,
              !.proc[p] = [Idle EXCEPT !.pc = "remove", !.op = "Add", !.key = key,
                                       !.path = path, !.old = Lists(h)]]

(* the index of the first element equal to path, 0 if there is none *)
indexOf(elems, path) ==
    IF \E i \in DOMAIN elems : elems[i] = path
    THEN CHOOSE i \in DOMAIN elems : elems[i] = path /\ \A j \in 1..(i - 1) : elems[j] # path
    ELSE 0

(* append(paths[:i], paths[i+1:]...) on the backing array: the elements   *)
(* after i move one place down, the last place keeps its element           *)
removeInPlace(array, len, i) ==
    [n \in DOMAIN array |-> IF n >= i /\ n < len THEN array[n + 1] ELSE array[n]]

(* Add: the slice of the key made if it is missing, and path removed from *)
(* it where it is                                                          *)
addRemove(h, p) ==
    LET key == h.proc[p].key
        paths == IF key \in DOMAIN h.Paths THEN h.Paths[key] ELSE NilSlice
        i == indexOf(Elements(h, paths), h.proc[p].path)
    IN  [h EXCEPT !.Paths = [k \in DOMAIN h.Paths \cup {key} |-> IF k = key THEN paths ELSE h.Paths[k]],
                  !.arrays = IF i = 0 THEN @
                             ELSE [@ EXCEPT ![paths.arr] = removeInPlace(@, paths.len, i)],
                  !.proc[p].paths = IF i = 0 THEN paths ELSE [paths EXCEPT !.len = @ - 1],
                  !.proc[p].pc = "store"]

keepAll(len) == len

(* if len(paths) > maxHistoryPerKey { paths = paths[:maxHistoryPerKey] } *)
keepMostRecent(len) == IF len > maxHistoryPerKey THEN maxHistoryPerKey ELSE len

(* Add: path put in front on a new backing array, the slice cut to        *)
(* maxHistoryPerKey and stored                                             *)
addStore(h, p) ==
    LET elems == <<h.proc[p].path>> \o Elements(h, h.proc[p].paths)
        a == newArray(h)
        paths == [arr |-> a, len |-> keepMostRecent(Len(elems))]
    IN  collect([h EXCEPT !.arrays = [n \in DOMAIN h.arrays \cup {a} |->
                                          IF n = a THEN elems ELSE h.arrays[n]],
                          !.Paths[h.proc[p].key] = paths,
                          !.proc[p].paths = NilSlice,
                          !.proc[p].pc = "unlock"])

(* the deferred h.mu.Unlock() and the return of Add or Clear *)
unlock(h, p) ==
    [h EXCEPT !.mu.w = 0,
              !.calls = Append(@, [op |-> h.proc[p].op, key |-> h.proc[p].key,
                                   path |-> h.proc[p].path]),
              !.proc[p] = Idle]

(* Add(key, path) from its call to its return *)
Add(h, p, key, path) == unlock(addStore(addRemove(addLock(h, p, key, path), p), p), p)

(* Clear up to the lock taken *)
clearLock(h, p) ==
    [h EXCEPT !.mu.w = p, !.started = @ + 1,
              !.proc[p] = [Idle EXCEPT !.pc = "clear", !.op = "Clear"]]

(* h.Paths = make(map[string][]string) *)
clearStore(h, p) == collect([h EXCEPT !.Paths = NoPaths, !.proc[p].pc = "unlock"])

(* Get or GetMostRecent up to the read lock taken *)
rLock(h, p, op, key) ==
    [h EXCEPT !.mu.r = @ \cup {p}, !.started = @ + 1,
              !.proc[p] = [Idle EXCEPT !.pc = "read", !.op = op, !.key = key]]

(* Get handing out the slice of the store itself *)
getShared(h, p) ==
    LET key == h.proc[p].key
    IN  IF key \notin DOMAIN h.Paths
        THEN [h EXCEPT !.proc[p].pc = "runlock"]
        ELSE [h EXCEPT !.proc[p].result = h.Paths[key],
                       !.proc[p].seen = Elements(h, h.Paths[key]),
                       !.proc[p].pc = "runlock"]

(* Get: []string{} for a missing key, else a copy of the slice on a new   *)
(* backing array                                                           *)
getCopy(h, p) ==
    LET key == h.proc[p].key
        a == newArray(h)
    IN  IF key \notin DOMAIN h.Paths
        THEN [h EXCEPT !.proc[p].pc = "runlock"]
        ELSE [h EXCEPT !.arrays = [n \in DOMAIN h.arrays \cup {a} |->
                                       IF n = a THEN Elements(h, h.Paths[key]) ELSE h.arrays[n]],
                       !.proc[p].result = [arr |-> a, len |-> h.Paths[key].len],
                       !.proc[p].seen = Elements(h, h.Paths[key]),
                       !.proc[p].pc = "runlock"]

(* GetMostRecent: "" for no paths, else paths[0] *)
getFirst(h, p) ==
    LET paths == Lists(h)[h.proc[p].key]
    IN  [h EXCEPT !.proc[p].recent = IF Len(paths) = 0 THEN <<>> ELSE paths[1],
                  !.proc[p].pc = "runlock"]

(* the deferred h.mu.RUnlock() and the return of Get or GetMostRecent *)
rUnlock(h, p) == [h EXCEPT !.mu.r = @ \ {p}, !.proc[p].pc = "returned"]

(* the caller of Get writes into the slice it was given *)
modifyResult(h, p) ==
    [h EXCEPT !.arrays[h.proc[p].result.arr][1] = <<"x">>,
              !.proc[p].seen[1] = <<"x">>]

(* the caller lets go of what was returned *)
forget(h, p) == collect([h EXCEPT !.proc[p] = Idle])

RECURSIVE Stored(_)
(* the history after Add("diff-left", "p1"), ..., Add("diff-left", "pn") *)
Stored(n) ==
    IF n = 0 THEN NewFileHistory
    ELSE Add(Stored(n - 1), 1, "diff-left", <<"p">> \o Itoa(n))

(* the paths the callers add *)
AddedPaths == {<<"p", "1">>, <<"p", "2">>, <<"p", "1", "1">>}

InitHistory ==
    /\ \E n \in 0..MaxStored : hist = [Stored(n) EXCEPT !.started = 0]
    /\ pc = "history"
    /\ left = Nil /\ right = Nil /\ opts = DefaultOptions
    /\ norm = Nil /\ renorm = Nil /\ result = NoResult
    /\ leftJSON = <<>> /\ rightJSON = <<>> /\ err = NoError
    /\ mem = NoMem /\ scan = NoScan /\ cmp = NoComparison

HistoryStep(h) ==
    /\ pc = "history"
    /\ hist' = h
    /\ UNCHANGED <<left, right, opts, pc, norm, renorm, result, appVars, mem, scan, cmp>>

AddLock ==
    \E p \in Procs, key \in HistoryKeys, path \in AddedPaths :
        /\ hist.proc[p].pc = "idle" /\ hist.started < MaxCalls /\ canLock(hist)
        /\ HistoryStep(addLock(hist, p, key, path))

AddRemove ==
    \E p \in Procs : hist.proc[p].pc = "remove" /\ HistoryStep(addRemove(hist, p))

AddStore ==
    \E p \in Procs : hist.proc[p].pc = "store" /\ HistoryStep(addStore(hist, p))

ClearLock ==
    \E p \in Procs :
        /\ hist.proc[p].pc = "idle" /\ hist.started < MaxCalls /\ canLock(hist)
        /\ HistoryStep(clearLock(hist, p))

ClearStore ==
    \E p \in Procs : hist.proc[p].pc = "clear" /\ HistoryStep(clearStore(hist, p))

Unlock ==
    \E p \in Procs : hist.proc[p].pc = "unlock" /\ HistoryStep(unlock(hist, p))

RLock ==
    \E p \in Procs, op \in {"Get", "GetMostRecent"}, key \in HistoryKeys :
        /\ hist.proc[p].pc = "idle" /\ hist.started < MaxCalls /\ canRLock(hist)
        /\ HistoryStep(rLock(hist, p, op, key))

GetCopy ==
    \E p \in Procs :
        /\ hist.proc[p].pc = "read" /\ hist.proc[p].op = "Get"
        /\ HistoryStep(getCopy(hist, p))

GetFirst ==
    \E p \in Procs :
        /\ hist.proc[p].pc = "read" /\ hist.proc[p].op = "GetMostRecent"
        /\ HistoryStep(getFirst(hist, p))

RUnlock ==
    \E p \in Procs : hist.proc[p].pc = "runlock" /\ HistoryStep(rUnlock(hist, p))

ModifyResult ==
    \E p \in Procs :
        /\ hist.proc[p].pc = "returned" /\ hist.proc[p].result.len > 0
        /\ hist.proc[p].seen[1] # <<"x">>
        /\ HistoryStep(modifyResult(hist, p))

Forget ==
    \E p \in Procs : hist.proc[p].pc = "returned" /\ HistoryStep(forget(hist, p))

NextHistory ==
    \/ AddLock \/ AddRemove \/ AddStore \/ ClearLock \/ ClearStore \/ Unlock
    \/ RLock \/ GetCopy \/ GetFirst \/ RUnlock \/ ModifyResult \/ Forget

SpecHistory == InitHistory /\ [][NextHistory]_vars

(***************************************************************************)
(* CompareAnalyses: the comparison of two analysis results.               *)
(***************************************************************************)
(* a nil *AnalysisResult or *PathSummary *)
NilPointer == [nil |-> TRUE]

(* leftMap[summary.Path] = summary for every summary of the list: a later *)
(* summary of the same path replaces an earlier one                       *)
summaryMap(summaries) ==
    [path \in {summaries[i].Path : i \in DOMAIN summaries} |->
        summaries[CHOOSE i \in DOMAIN summaries :
                      /\ summaries[i].Path = path
                      /\ \A j \in DOMAIN summaries : summaries[j].Path = path => j <= i]]

statsAreEqualCountsOnly(l, r) == l.Count = r.Count /\ l.ObjectHits = r.ObjectHits

(* statsAreEqual *)
statsAreEqual(l, r) ==
    l.Count = r.Count /\ l.ObjectHits = r.ObjectHits /\ l.DistinctCount = r.DistinctCount

(* statusPriority *)
statusPriority(status) ==
    IF status = "removed" THEN 0
    ELSE IF status = "added" THEN 1
    ELSE IF status = "changed" THEN 2
    ELSE IF status = "equal" THEN 3
    ELSE 4

(* abs *)
abs(x) == IF x < 0 THEN -x ELSE x

(* the PathComparison of one path of allPaths *)
PathComparison(leftMap, rightMap, path) ==
    IF path \in DOMAIN leftMap /\ path \in DOMAIN rightMap
    THEN [Path |-> path,
          Status |-> IF statsAreEqual(leftMap[path], rightMap[path]) THEN "equal" ELSE "changed",
          Left |-> leftMap[path], Right |-> rightMap[path],
          CountDelta |-> rightMap[path].Count - leftMap[path].Count,
          ObjectsDelta |-> rightMap[path].ObjectHits - leftMap[path].ObjectHits,
          DistinctDelta |-> rightMap[path].DistinctCount - leftMap[path].DistinctCount]
    ELSE IF path \in DOMAIN leftMap
    THEN [Path |-> path, Status |-> "removed", Left |-> leftMap[path], Right |-> NilPointer,
          CountDelta |-> -leftMap[path].Count,
          ObjectsDelta |-> -leftMap[path].ObjectHits,
          DistinctDelta |-> -leftMap[path].DistinctCount]
    ELSE [Path |-> path, Status |-> "added", Left |-> NilPointer, Right |-> rightMap[path],
          CountDelta |-> rightMap[path].Count,
          ObjectsDelta |-> rightMap[path].ObjectHits,
          DistinctDelta |-> rightMap[path].DistinctCount]

(* ComparisonStats{} *)
ComparisonStats ==
    [TotalPaths |-> 0, AddedPaths |-> 0, RemovedPaths |-> 0, ChangedPaths |-> 0,
     EqualPaths |-> 0, TotalCountDelta |-> 0, TotalObjectsDelta |-> 0, TotalDistinctDelta |-> 0]

(* the counter of the status and the three totals moved by one comparison *)
countComparison(stats, c) ==
    [stats EXCEPT !.AddedPaths = IF c.Status = "added" THEN @ + 1 ELSE @,
                  !.RemovedPaths = IF c.Status = "removed" THEN @ + 1 ELSE @,
                  !.ChangedPaths = IF c.Status = "changed" THEN @ + 1 ELSE @,
                  !.EqualPaths = IF c.Status = "equal" THEN @ + 1 ELSE @,
                  !.TotalCountDelta = @ + c.CountDelta,
                  !.TotalObjectsDelta = @ + c.ObjectsDelta,
                  !.TotalDistinctDelta = @ + c.DistinctDelta]

RECURSIVE comparePaths(_, _, _, _)
(* for _, path := range paths: the comparisons and the stats after the    *)
(* paths from at on                                                        *)
comparePaths(leftMap, rightMap, paths, acc) ==
    IF paths = <<>> THEN acc
    ELSE comparePaths(leftMap, rightMap, Tail(paths),
             [comparisons |-> Append(acc.comparisons, PathComparison(leftMap, rightMap, Head(paths))),
              stats |-> countComparison(acc.stats, PathComparison(leftMap, rightMap, Head(paths)))])

(* the less function handed to sort.Slice *)
comparisonLess(a, b) ==
    IF statusPriority(a.Status) # statusPriority(b.Status)
    THEN statusPriority(a.Status) < statusPriority(b.Status)
    ELSE IF abs(a.CountDelta) # abs(b.CountDelta)
    THEN abs(a.CountDelta) > abs(b.CountDelta)
    ELSE stringsCompare(a.Path, b.Path) < 0

RECURSIVE sortComparisons(_)
(* sort.Slice(comparisons, ...): the paths differ, so less is a total     *)
(* order and the result is the one sorted sequence                        *)
sortComparisons(comparisons) ==
    IF comparisons = {} THEN <<>>
    ELSE LET first == CHOOSE c \in comparisons :
                          \A d \in comparisons \ {c} : comparisonLess(c, d)
         IN  <<first>> \o sortComparisons(comparisons \ {first})

(* CompareAnalyses(left, right, leftFile, rightFile) *)
CompareAnalyses(l, r) ==
    IF l = NilPointer \/ r = NilPointer
    THEN [Comparisons |-> <<>>, Stats |-> ComparisonStats]
    ELSE LET done == comparePaths(summaryMap(l.Paths), summaryMap(r.Paths),
                         sortStrings(DOMAIN summaryMap(l.Paths) \cup DOMAIN summaryMap(r.Paths)),
                         [comparisons |-> <<>>, stats |-> ComparisonStats])
         IN  [Comparisons |-> sortComparisons({done.comparisons[i] : i \in DOMAIN done.comparisons}),
              Stats |-> [done.stats EXCEPT !.TotalPaths = Len(done.comparisons)]]

MaxCount == 2

(* the paths of the two logs *)
LogPaths == {<<"$", ".", "a">>, <<"$", ".", "b">>, <<"$", ".", "a", "[", "]">>}

(* the summaries an analysis can hold of one path: the path was met Count *)
(* times in ObjectHits records, with DistinctCount different values; the  *)
(* elements of $.a are met once                                           *)
Summaries(path) ==
    {s \in [Path : {path}, Count : 1..MaxCount, ObjectHits : 1..MaxCount,
            DistinctCount : 1..MaxCount, TopValues : {<<>>}] :
        /\ s.ObjectHits <= s.Count /\ s.DistinctCount <= s.Count
        /\ path = <<"$", ".", "a", "[", "]">> => s.Count = 1}

(* the analysis results of logs with some of the paths *)
Analyses ==
    UNION {{[Paths |-> sortPaths({f[p] : p \in some}), TotalLines |-> MaxCount, JSONLines |-> MaxCount,
             SkippedLines |-> 0, TotalPaths |-> Cardinality(some)] :
               f \in {g \in [some -> UNION {Summaries(p) : p \in some}] :
                         \A p \in some : g[p].Path = p}} :
           some \in SUBSET LogPaths}

InitCompareAnalyses ==
    /\ \E l, r \in Analyses \cup {NilPointer} :
           cmp = [left |-> l, right |-> r, result |-> NilPointer]
    /\ pc = "analyses"
    /\ left = Nil /\ right = Nil /\ opts = DefaultOptions
    /\ norm = Nil /\ renorm = Nil /\ result = NoResult
    /\ leftJSON = <<>> /\ rightJSON = <<>> /\ err = NoError
    /\ mem = NoMem /\ scan = NoScan /\ hist = NoHistory

CallCompareAnalyses ==
    /\ pc = "analyses"
    /\ cmp' = [cmp EXCEPT !.result = CompareAnalyses(cmp.left, cmp.right)]
    /\ pc' = "analysesCompared"
    /\ UNCHANGED <<left, right, opts, norm, renorm, result, appVars, mem, scan, hist>>

NextCompareAnalyses == CallCompareAnalyses

SpecCompareAnalyses == InitCompareAnalyses /\ [][NextCompareAnalyses]_vars

(***************************************************************************)
(* Compare on documents whose keys are arbitrary strings: the empty key   *)
(* and keys with the characters the paths are written with.               *)
(***************************************************************************)
MaxKeys == 2

AnyKeys ==
    {<<>>, <<"a">>, <<"b">>, <<"a", ".", "b">>, <<"a", "[", "0", "]">>, <<"[", "0", "]">>}

(* what stands under a key: a number, an array of one, an object of one key *)
KeyedValues == {Num(2), Arr(<<Num(2)>>)} \cup {Obj((k :> Num(2))) : k \in AnyKeys}

(* the objects of at most MaxKeys of the keys *)
KeyDocuments ==
    {Obj(f) : f \in UNION {[some -> KeyedValues] :
                              some \in {keys \in SUBSET AnyKeys : Cardinality(keys) <= MaxKeys}}}

(* a document against itself, against the empty object and against the   *)
(* empty array                                                             *)
KeyPairs == Diagonal(KeyDocuments) \cup (KeyDocuments \X {Obj(<<>>), Arr(<<>>)})

InitKeys == Start(KeyPairs, {NoNormalization})

NextKeys == CallCompare

SpecKeys == InitKeys /\ [][NextKeys]_vars

----------------------------------------------------------------------------
(* Compare and CompareWithOptions side by side, under every combination of *)
(* options. Besides the small documents, the inputs hold the pairs "an     *)
(* object with extra keys mapped to null" against "the object without      *)
(* them", at the root, under an object key and as an array element with    *)
(* or without a sibling.                                                    *)

MaxWrap == 1

OptionScalars == {Nil, Num(2), Str(<<" ", "a">>)}

DualObjects == {<<>>} \cup {(k :> x) : k \in Keys, x \in {Nil, Num(2)}}

NullEntries(extra) == [k \in extra |-> Nil]

Siblings == {Num(2), Obj((<<"a">> :> Num(3))), Obj((<<"b">> :> Num(3)))}

Wrappers ==
    {[kind |-> k, sib |-> Nil] : k \in {"field", "only"}}
    \cup {[kind |-> k, sib |-> x] : k \in {"first", "last"}, x \in Siblings}

(* v under the key "a", or v as an element of an array *)
Wrap(w, v) ==
    CASE w.kind = "field" -> Obj((<<"a">> :> v))
      [] w.kind = "only" -> Arr(<<v>>)
      [] w.kind = "first" -> Arr(<<v, w.sib>>)
      [] w.kind = "last" -> Arr(<<w.sib, v>>)

RECURSIVE WrapAll(_, _)
WrapAll(ws, v) == IF ws = <<>> THEN v ELSE Wrap(Head(ws), WrapAll(Tail(ws), v))

Contexts == UNION {[1..n -> Wrappers] : n \in 0..MaxWrap}

DualPairs ==
    UNION {UNION {{<<WrapAll(c, Obj(o @@ NullEntries(extra))), WrapAll(c, Obj(o))>> :
                     c \in Contexts} :
                  extra \in (SUBSET (Keys \ DOMAIN o)) \ {{}}} :
           o \in DualObjects}

MaxHalf == 4

(* the numbers from -MaxHalf/2 to MaxHalf/2 in steps of one half *)
Numbers == {Num(h) : h \in (-MaxHalf)..MaxHalf}

(* two numbers, at the root or as the element of an array *)
NumberPairs == (Numbers \X Numbers) \cup {<<Arr(<<x>>), Arr(<<y>>)>> : x, y \in Numbers}

OptionInputs == PairsUpTo(OptionScalars, MaxNodes + 1) \cup DualPairs \cup NumberPairs

InitOptions == Start(OptionInputs, AllOptions)

NextOptions == CallCompare \/ CallCompareWithOptions

SpecOptions == InitOptions /\ [][NextOptions]_vars

----------------------------------------------------------------------------
(* Vocabulary of the properties *)

Range(f) == {f[i] : i \in DOMAIN f}

Compared == pc \in {"compared", "comparedWithOptions"}

RECURSIVE NodesOf(_)
(* every node of a diff tree *)
NodesOf(node) == {node} \cup UNION {NodesOf(c) : c \in Range(node.Children)}

(* the children of node whose path is the one of object key k *)
ChildrenAtKey(node, k) ==
    {c \in Range(node.Children) : c.Path = node.Path \o <<".">> \o k}

(* the key a child of an object node stands for, read off its path *)
KeyOfChild(node, c) == SubSeq(c.Path, Len(node.Path) + 2, Len(c.Path))

RECURSIVE Positions(_, _, _)
(* <<l, r, node>> for every position at which both sides are present: the *)
(* root, a key of both objects, an index inside both arrays               *)
Positions(l, r, node) ==
    {<<l, r, node>>}
    \cup (IF l.t = "obj" /\ r.t = "obj"
          THEN UNION {UNION {Positions(l.o[k], r.o[k], c) : c \in ChildrenAtKey(node, k)} :
                      k \in DOMAIN l.o \cap DOMAIN r.o}
          ELSE {})
    \cup (IF l.t = "arr" /\ r.t = "arr"
          THEN UNION {Positions(l.a[i], r.a[i], node.Children[i]) :
                      i \in {j \in 1..Len(node.Children) : j <= Len(l.a) /\ j <= Len(r.a)}}
          ELSE {})

RECURSIVE SumOver(_, _)
SumOver(f, dom) ==
    IF dom = {} THEN 0
    ELSE LET x == CHOOSE y \in dom : TRUE IN f[x] + SumOver(f, dom \ {x})

RECURSIVE LeafCount(_)
(* the leaves of a value: scalars, nulls and empty containers *)
LeafCount(v) ==
    IF v.t = "arr" /\ v.a # <<>>
    THEN SumOver([i \in DOMAIN v.a |-> LeafCount(v.a[i])], DOMAIN v.a)
    ELSE IF v.t = "obj" /\ DOMAIN v.o # {}
    THEN SumOver([k \in DOMAIN v.o |-> LeafCount(v.o[k])], DOMAIN v.o)
    ELSE 1

RECURSIVE ChildlessCount(_, _)
(* the nodes of a tree that have no children and are of one of the kinds *)
ChildlessCount(node, kinds) ==
    IF node.Children = <<>> THEN (IF node.Type \in kinds THEN 1 ELSE 0)
    ELSE SumOver([i \in DOMAIN node.Children |-> ChildlessCount(node.Children[i], kinds)],
                 DOMAIN node.Children)

AllKinds == {DiffEqual, DiffAdded, DiffRemoved, DiffChanged}

----------------------------------------------------------------------------
(* C2. Self-equality: comparing a value with itself gives a root of kind  *)
(* Equal and stats with added = removed = changed = 0 and equal = the     *)
(* number of leaves of the value, an empty container counting once.       *)
C2_SelfEquality ==
    (pc = "compared" /\ left = right) =>
        /\ result.Root.Type = DiffEqual
        /\ result.Stats = DiffStats(0, 0, 0, LeafCount(left))

C2_Witness ==
    /\ pc = "compared"
    /\ left = Arr(<<Obj(<<>>), Arr(<<Nil>>)>>)
    /\ right = left
    /\ result.Stats.Equal = 2

(* C5. The stats count only the nodes without children: each counter is   *)
(* the number of childless nodes of its kind, and the four add up to the  *)
(* number of childless nodes of the tree.                                 *)
C5_StatsCountLeaves ==
    Compared =>
        /\ result.Stats.Equal = ChildlessCount(result.Root, {DiffEqual})
        /\ result.Stats.Added = ChildlessCount(result.Root, {DiffAdded})
        /\ result.Stats.Removed = ChildlessCount(result.Root, {DiffRemoved})
        /\ result.Stats.Changed = ChildlessCount(result.Root, {DiffChanged})
        /\ result.Stats.Equal + result.Stats.Added + result.Stats.Removed
           + result.Stats.Changed = ChildlessCount(result.Root, AllKinds)

C5_Witness ==
    /\ pc = "compared"
    /\ \E c \in Range(result.Root.Children) : c.Children # <<>>
    /\ result.Stats = DiffStats(0, 0, 0, 2)
    /\ Cardinality(NodesOf(result.Root)) = 4

(* C6. Where both sides are present: null against null is an Equal node   *)
(* with no value; null against a value is a childless Added node with     *)
(* only the right value; a value against null is a childless Removed node *)
(* with only the left value.                                              *)
C6_NullRule ==
    Compared =>
        \A p \in Positions(left, right, result.Root) :
            LET l == p[1]
                r == p[2]
                n == p[3]
            IN  /\ (l = Nil /\ r = Nil) => n = DiffNode(n.Path, DiffEqual, Nil, Nil, <<>>)
                /\ (l = Nil /\ r # Nil) => n = DiffNode(n.Path, DiffAdded, Nil, r, <<>>)
                /\ (l # Nil /\ r = Nil) => n = DiffNode(n.Path, DiffRemoved, l, Nil, <<>>)

C6_Witness ==
    /\ pc = "compared"
    /\ left = Arr(<<Nil, Str(<<"a">>), Nil>>)
    /\ right = Arr(<<Str(<<"a">>), Nil, Nil>>)
    /\ result.Root.Children[1] = DiffNode(<<"[", "0", "]">>, DiffAdded, Nil, Str(<<"a">>), <<>>)
    /\ result.Root.Children[2] = DiffNode(<<"[", "1", "]">>, DiffRemoved, Str(<<"a">>), Nil, <<>>)
    /\ result.Root.Children[3] = DiffNode(<<"[", "2", "]">>, DiffEqual, Nil, Nil, <<>>)

(* C7. Comparing two objects yields one child per key of the union of the *)
(* key sets, in ascending byte order of the keys; a key only on the right *)
(* gives an Added child with the right value, a key only on the left a    *)
(* Removed child with the left value, a key on both sides the comparison  *)
(* of the two values.                                                      *)
C7_ObjectChildren ==
    Compared =>
        \A p \in Positions(left, right, result.Root) :
            LET l == p[1]
                r == p[2]
                n == p[3]
                keys == DOMAIN l.o \cup DOMAIN r.o
                keyAt(i) == KeyOfChild(n, n.Children[i])
                pathAt(i) == n.Path \o <<".">> \o keyAt(i)
            IN  (l.t = "obj" /\ r.t = "obj") =>
                    /\ Len(n.Children) = Cardinality(keys)
                    /\ \A i \in DOMAIN n.Children : keyAt(i) \in keys
                    /\ \A i, j \in DOMAIN n.Children :
                           i < j => stringsCompare(keyAt(i), keyAt(j)) < 0
                    /\ \A i \in DOMAIN n.Children :
                           n.Children[i] =
                               IF keyAt(i) \notin DOMAIN l.o
                               THEN DiffNode(pathAt(i), DiffAdded, Nil, r.o[keyAt(i)], <<>>)
                               ELSE IF keyAt(i) \notin DOMAIN r.o
                               THEN DiffNode(pathAt(i), DiffRemoved, l.o[keyAt(i)], Nil, <<>>)
                               ELSE compareValues(l.o[keyAt(i)], r.o[keyAt(i)], pathAt(i))

C7_Witness ==
    /\ pc = "compared"
    /\ left = Obj((<<"a">> :> Num(2)) @@ (<<"b">> :> Num(2)))
    /\ right = Obj((<<"a">> :> Num(3)))
    /\ result.Root.Children =
           <<DiffNode(<<".", "a">>, DiffChanged, Num(2), Num(3), <<>>),
             DiffNode(<<".", "b">>, DiffRemoved, Num(2), Nil, <<>>)>>

(* C8. Comparing two arrays is positional: max(len(left), len(right))     *)
(* children in index order; child i is Added with right[i] when i is past *)
(* the left array, Removed with left[i] when i is past the right array,   *)
(* and the comparison of left[i] with right[i] otherwise.                 *)
C8_ArrayChildren ==
    Compared =>
        \A p \in Positions(left, right, result.Root) :
            LET l == p[1]
                r == p[2]
                n == p[3]
                pathAt(i) == n.Path \o <<"[">> \o Itoa(i - 1) \o <<"]">>
            IN  (l.t = "arr" /\ r.t = "arr") =>
                    /\ Len(n.Children) = IF Len(l.a) > Len(r.a) THEN Len(l.a) ELSE Len(r.a)
                    /\ \A i \in DOMAIN n.Children :
                           n.Children[i] =
                               IF i > Len(l.a)
                               THEN DiffNode(pathAt(i), DiffAdded, Nil, r.a[i], <<>>)
                               ELSE IF i > Len(r.a)
                               THEN DiffNode(pathAt(i), DiffRemoved, l.a[i], Nil, <<>>)
                               ELSE compareValues(l.a[i], r.a[i], pathAt(i))

C8_Witness ==
    /\ pc = "compared"
    /\ left = Arr(<<Num(2), Num(3), Str(<<"a">>)>>)
    /\ right = Arr(<<Num(2), Num(3)>>)
    /\ result.Root.Type = DiffChanged
    /\ result.Root.Children[3] = DiffNode(<<"[", "2", "]">>, DiffRemoved, Str(<<"a">>), Nil, <<>>)
    /\ result.Stats = DiffStats(0, 1, 0, 2)

(* C9. Two non-null values that are not both objects and not both arrays: *)
(* of different types, a childless Changed node with both values; of the  *)
(* same scalar type, a childless Equal node with neither value when they  *)
(* are equal and a childless Changed node with both values when not.      *)
C9_ScalarRule ==
    Compared =>
        \A p \in Positions(left, right, result.Root) :
            LET l == p[1]
                r == p[2]
                n == p[3]
            IN  (/\ l # Nil
                 /\ r # Nil
                 /\ ~(l.t = "obj" /\ r.t = "obj")
                 /\ ~(l.t = "arr" /\ r.t = "arr")) =>
                    IF l.t # r.t THEN n = DiffNode(n.Path, DiffChanged, l, r, <<>>)
                    ELSE IF l = r THEN n = DiffNode(n.Path, DiffEqual, Nil, Nil, <<>>)
                    ELSE n = DiffNode(n.Path, DiffChanged, l, r, <<>>)

C9_Witness ==
    /\ pc = "compared"
    /\ left = Arr(<<Arr(<<>>), Num(2)>>)
    /\ right = Arr(<<Obj(<<>>)>>)
    /\ result.Root.Children =
           <<DiffNode(<<"[", "0", "]">>, DiffChanged, Arr(<<>>), Obj(<<>>), <<>>),
             DiffNode(<<"[", "1", "]">>, DiffRemoved, Num(2), Nil, <<>>)>>

RECURSIVE ExtraNulls(_, _)
(* the number of keys l maps to null and r lacks, when l is r with such   *)
(* keys added to some of its objects and nothing else differs; -1 when it *)
(* is not                                                                  *)
ExtraNulls(l, r) ==
    IF l.t = "obj" /\ r.t = "obj"
    THEN LET extra == DOMAIN l.o \ DOMAIN r.o
             below == [k \in DOMAIN r.o |->
                          IF k \in DOMAIN l.o THEN ExtraNulls(l.o[k], r.o[k]) ELSE -1]
         IN  IF (\A k \in extra : l.o[k] = Nil) /\ (\A k \in DOMAIN r.o : below[k] >= 0)
             THEN Cardinality(extra) + SumOver(below, DOMAIN r.o)
             ELSE -1
    ELSE IF l.t = "arr" /\ r.t = "arr"
    THEN LET below == [i \in DOMAIN l.a |->
                          IF i \in DOMAIN r.a THEN ExtraNulls(l.a[i], r.a[i]) ELSE -1]
         IN  IF Len(l.a) = Len(r.a) /\ (\A i \in DOMAIN l.a : below[i] >= 0)
             THEN SumOver(below, DOMAIN l.a)
             ELSE -1
    ELSE IF l = r THEN 0 ELSE -1

RECURSIVE NullOnlyKeys(_, _)
(* the keys ExtraNulls counts *)
NullOnlyKeys(l, r) ==
    IF l.t = "obj" /\ r.t = "obj"
    THEN (DOMAIN l.o \ DOMAIN r.o)
         \cup UNION {NullOnlyKeys(l.o[k], r.o[k]) : k \in DOMAIN l.o \cap DOMAIN r.o}
    ELSE IF l.t = "arr" /\ r.t = "arr"
    THEN UNION {NullOnlyKeys(l.a[i], r.a[i]) : i \in DOMAIN l.a \cap DOMAIN r.a}
    ELSE {}

(* C1. Idempotence: normalizing a normalized value again, under the same  *)
(* options, gives the value back, for every value and every combination  *)
(* of options.                                                             *)
C1_Idempotent == pc = "renormalized" => renorm = norm

(* C3. CompareWithOptions(left, right, opts) is the tree and the stats of *)
(* Compare on the two values normalized one by one.                       *)
C3_CompareNormalized ==
    pc = "comparedWithOptions" =>
        result = Compare(Value(left, opts), Value(right, opts))

C3_Witness ==
    /\ pc = "comparedWithOptions"
    /\ opts.TrimStrings
    /\ left = Arr(<<Str(<<" ", "a">>)>>)
    /\ right = Obj((<<"a">> :> Str(<<" ", "a">>)))
    /\ result.Root = DiffNode(<<>>, DiffChanged, Arr(<<Str(<<"a">>)>>),
                              Obj((<<"a">> :> Str(<<"a">>))), <<>>)
    /\ result # Compare(left, right)

(* C4. Every node with at least one child is Equal exactly when all its   *)
(* children are Equal and is Changed otherwise; it is never Added or      *)
(* Removed.                                                                *)
C4_ParentKind ==
    Compared =>
        \A n \in NodesOf(result.Root) :
            n.Children # <<>> =>
                /\ n.Type = DiffEqual <=> \A c \in Range(n.Children) : c.Type = DiffEqual
                /\ n.Type # DiffEqual => n.Type = DiffChanged
                /\ n.Type \notin {DiffAdded, DiffRemoved}

C4_Witness ==
    /\ pc = "comparedWithOptions"
    /\ result.Root.Type = DiffChanged
    /\ Len(result.Root.Children) = 2
    /\ result.Root.Children[1].Type = DiffEqual
    /\ result.Root.Children[1].Children # <<>>
    /\ result.Root.Children[2].Type = DiffChanged
    /\ result.Root.Children[2].Children # <<>>
    /\ result.Root.Children[2].Children[1].Type = DiffRemoved

C10_WitnessUnset ==
    /\ pc = "comparedWithOptions"
    /\ ~opts.NullEqualsAbsent
    /\ opts.SortArraysByKey = <<"a">>
    /\ left = Arr(<<Obj((<<"b">> :> Num(3))),
                    Obj((<<"a">> :> Num(2)) @@ (<<"b">> :> Nil))>>)
    /\ right = Arr(<<Obj((<<"b">> :> Num(3))), Obj((<<"a">> :> Num(2)))>>)
    /\ result.Root.Type = DiffChanged
    /\ result.Stats = DiffStats(0, 1, 0, 2)

RECURSIVE CountArrays(_, _)
(* the arrays of length n in a value *)
CountArrays(v, n) ==
    IF v.t = "arr"
    THEN (IF Len(v.a) = n THEN 1 ELSE 0)
         + SumOver([i \in DOMAIN v.a |-> CountArrays(v.a[i], n)], DOMAIN v.a)
    ELSE IF v.t = "obj"
    THEN SumOver([k \in DOMAIN v.o |-> CountArrays(v.o[k], n)], DOMAIN v.o)
    ELSE 0

RECURSIVE NullElements(_)
(* the array elements of a value that are null *)
NullElements(v) ==
    IF v.t = "arr"
    THEN SumOver([i \in DOMAIN v.a |->
                     IF v.a[i] = Nil THEN 1 ELSE NullElements(v.a[i])], DOMAIN v.a)
    ELSE IF v.t = "obj"
    THEN SumOver([k \in DOMAIN v.o |-> NullElements(v.o[k])], DOMAIN v.o)
    ELSE 0

RECURSIVE NullValuedKeys(_)
(* the object entries of a value whose value is null *)
NullValuedKeys(v) ==
    IF v.t = "arr"
    THEN SumOver([i \in DOMAIN v.a |-> NullValuedKeys(v.a[i])], DOMAIN v.a)
    ELSE IF v.t = "obj"
    THEN SumOver([k \in DOMAIN v.o |->
                     IF v.o[k] = Nil THEN 1 ELSE NullValuedKeys(v.o[k])], DOMAIN v.o)
    ELSE 0

(* C11. nullEqualsAbsent removes object entries mapped to null and nothing *)
(* else: under every combination of options there are as many arrays of   *)
(* each length after Normalize as before, as many null array elements, a  *)
(* top-level null stays null, and with nullEqualsAbsent set no object of   *)
(* the output maps a key to null.                                          *)
C11_OnlyObjectNulls ==
    pc = "normalized" =>
        /\ \A n \in 0..(blockSize + MaxTail + 1) : CountArrays(norm, n) = CountArrays(left, n)
        /\ left.t = "arr" => (norm.t = "arr" /\ Len(norm.a) = Len(left.a))
        /\ NullElements(norm) = NullElements(left)
        /\ left = Nil => norm = Nil
        /\ opts.NullEqualsAbsent => NullValuedKeys(norm) = 0

C11_Witness ==
    /\ pc = "normalized"
    /\ opts.NullEqualsAbsent
    /\ left = Arr(<<Nil, Obj((<<"a">> :> Nil))>>)
    /\ norm = Arr(<<Nil, Obj(<<>>)>>)

(* C12. The sortKeys option changes no result: Value gives the same value *)
(* and CompareWithOptions the same tree and stats with the option set and *)
(* unset, and a document compared with an equal one is Equal either way.  *)
C12_SortKeysNoEffect ==
    pc = "comparedWithOptions" =>
        LET flipped == [opts EXCEPT !.SortKeys = ~opts.SortKeys]
        IN  /\ Value(left, flipped) = Value(left, opts)
            /\ Value(right, flipped) = Value(right, opts)
            /\ CompareWithOptions(left, right, flipped) = result
            /\ left = right => result.Root.Type = DiffEqual

C12_Witness ==
    /\ pc = "comparedWithOptions"
    /\ ~opts.SortKeys
    /\ opts.TrimStrings
    /\ left = Obj((<<"a">> :> Str(<<" ", "a">>)))
    /\ right = left
    /\ result.Root.Type = DiffEqual
    /\ result.Root.Children = <<DiffNode(<<".", "a">>, DiffEqual, Nil, Nil, <<>>)>>

(* a number of halves that is a whole number *)
Integral(h) == h % 2 = 0

(* h without its fractional part, rounding toward zero *)
TowardZero(h) == IF h >= 0 THEN h - (h % 2) ELSE h + ((-h) % 2)

(* C13. Number normalization: with normalizeNumbers set an integral       *)
(* number becomes its truncation and a non-integral number is returned    *)
(* unchanged, with the option unset every number is returned unchanged,   *)
(* and the result is a number in all cases; so two numbers compare Equal  *)
(* exactly when they are numerically equal, and Changed with both values  *)
(* otherwise.                                                              *)
C13_NumberNormalization ==
    (pc = "comparedWithOptions" /\ left.t = "num") =>
        LET out == Value(left, opts)
        IN  /\ out.t = "num"
            /\ (opts.NormalizeNumbers /\ Integral(left.n)) => out = Num(TowardZero(left.n))
            /\ (opts.NormalizeNumbers /\ ~Integral(left.n)) => out = left
            /\ ~opts.NormalizeNumbers => out = left
            /\ right.t = "num" =>
                   result.Root = IF left.n = right.n
                                 THEN DiffNode(<<>>, DiffEqual, Nil, Nil, <<>>)
                                 ELSE DiffNode(<<>>, DiffChanged, left, right, <<>>)

C13_Witness ==
    /\ pc = "comparedWithOptions"
    /\ opts.NormalizeNumbers
    /\ left = Num(-3)
    /\ right = Num(-2)
    /\ result.Root = DiffNode(<<>>, DiffChanged, Num(-3), Num(-2), <<>>)

(* x is an object that has the key k *)
Keyed(x, k) == x.t = "obj" /\ k \in DOMAIN x.o

(* how many times x stands among the first n elements of seq *)
CountBefore(seq, n, x) == Cardinality({j \in 1..n : seq[j] = x})

(* the elements of an array, each normalized, in input order *)
ElementWise(arr, o) == [i \in 1..Len(arr) |-> Value(arr[i], o)]

(* C14. With sortArraysByKey = k, an element that is not an object or     *)
(* lacks the key k stays where it is, with the same elements before it as *)
(* in the element-wise normalized input: it is not reordered against the  *)
(* other such elements and no element with the key moves past it.         *)
C14_UnkeyedStay ==
    (pc = "normalized" /\ left.t = "arr" /\ opts.SortArraysByKey # NoKey) =>
        LET elems == ElementWise(left.a, opts)
        IN  \A i \in DOMAIN elems :
                ~Keyed(elems[i], opts.SortArraysByKey) =>
                    /\ norm.a[i] = elems[i]
                    /\ \A x \in Range(elems) :
                           CountBefore(norm.a, i - 1, x) = CountBefore(elems, i - 1, x)

(* the same for arrays of at most blockSize elements, which                *)
(* sort.SliceStable sorts by one insertion sort                            *)
UnkeyedStayInShortArrays ==
    (pc = "normalized" /\ left.t = "arr" /\ Len(left.a) <= blockSize) => C14_UnkeyedStay

Rank(v) ==
    CASE v.t = "null" -> 0
      [] v.t = "bool" -> 1
      [] v.t = "num" -> 2
      [] v.t = "str" -> 3
      [] v.t = "arr" -> 4
      [] v.t = "obj" -> 5

RECURSIVE LexLess(_, _)
(* s stands before t in the dictionary, byte by byte *)
LexLess(s, t) ==
    IF t = <<>> THEN FALSE
    ELSE IF s = <<>> THEN TRUE
    ELSE \/ Code(Head(s)) < Code(Head(t))
         \/ Code(Head(s)) = Code(Head(t)) /\ LexLess(Tail(s), Tail(t))

(* x stands strictly before y in the order sortArrays sorts by *)
Before(x, y) ==
    \/ Rank(x) < Rank(y)
    \/ /\ Rank(x) = Rank(y)
       /\ CASE x.t = "bool" -> ~x.b /\ y.b
            [] x.t = "num" -> x.n < y.n
            [] x.t = "str" -> LexLess(x.s, y.s)
            [] OTHER -> FALSE

Tied(x, y) == ~Before(x, y) /\ ~Before(y, x)

C16_WitnessScalars ==
    /\ pc = "normalized"
    /\ opts.SortArrays
    /\ opts.SortArraysByKey = NoKey
    /\ left = Arr(<<Str(<<"b">>), Bool(TRUE), Bool(FALSE)>>)
    /\ norm = Arr(<<Bool(FALSE), Bool(TRUE), Str(<<"b">>)>>)

(* C20. With sortArrays set and sortArraysByKey non-empty the key alone   *)
(* orders the arrays: Normalize gives what it gives with sortArrays unset *)
(* and the same key, and an array without objects keeps its input order.  *)
C20_ByKeyWins ==
    (pc = "normalized" /\ opts.SortArrays /\ opts.SortArraysByKey # NoKey) =>
        /\ norm = Value(left, [opts EXCEPT !.SortArrays = FALSE])
        /\ (left.t = "arr" /\ \A i \in DOMAIN left.a : left.a[i].t # "obj") =>
               norm.a = ElementWise(left.a, opts)

C20_Witness ==
    /\ pc = "normalized"
    /\ opts.SortArrays
    /\ opts.SortArraysByKey = <<"a">>
    /\ left = Arr(<<Str(<<"b">>), Num(3), Num(2)>>)
    /\ norm = left

(* the decimal digits of an index below 100 *)
Decimal(i) ==
    LET digits == <<"0", "1", "2", "3", "4", "5", "6", "7", "8", "9">>
    IN  IF i < 10 THEN <<digits[i + 1]>>
        ELSE <<digits[(i \div 10) + 1], digits[(i % 10) + 1]>>

RECURSIVE PathsFrom(_, _, _, _)
(* node has the path p, and below it every child has the path of its     *)
(* parent followed by "." and its key, or by "[", its index and "]"       *)
PathsFrom(l, r, node, p) ==
    /\ node.Path = p
    /\ IF l.t = "obj" /\ r.t = "obj"
       THEN /\ {c.Path : c \in Range(node.Children)}
                   = {p \o <<".">> \o k : k \in DOMAIN l.o \cup DOMAIN r.o}
            /\ \A k \in DOMAIN l.o \cap DOMAIN r.o :
                   \A c \in ChildrenAtKey(node, k) :
                       PathsFrom(l.o[k], r.o[k], c, p \o <<".">> \o k)
       ELSE IF l.t = "arr" /\ r.t = "arr"
       THEN /\ \A i \in DOMAIN node.Children :
                   node.Children[i].Path = p \o <<"[">> \o Decimal(i - 1) \o <<"]">>
            /\ \A i \in DOMAIN l.a \cap DOMAIN r.a :
                   PathsFrom(l.a[i], r.a[i], node.Children[i],
                             p \o <<"[">> \o Decimal(i - 1) \o <<"]">>)
       ELSE TRUE

C18_WitnessLastIndex ==
    /\ pc = "compared"
    /\ left = Ones(MaxIndex + 1)
    /\ right = Ones(MaxIndex)
    /\ result.Root.Children[MaxIndex + 1] =
           DiffNode(<<"[">> \o Decimal(MaxIndex) \o <<"]">>, DiffRemoved, Num(2), Nil, <<>>)
    /\ Len(result.Root.Children[MaxIndex + 1].Path) = 4

(* the cells of the input document are what they were before the call *)
InputUntouched ==
    /\ \A at \in DOMAIN mem.before : mem.after[at] = mem.before[at]
    /\ Load(mem.after, mem.in) = left

(* C17. Normalize does not mutate its input: after Value returns, every   *)
(* map and slice of the input holds the keys, elements and order it held  *)
(* before, under every combination of options; the result shares no map   *)
(* or slice with the input, so writing into the result afterwards leaves  *)
(* the input as it was. The result in memory is the value Value computes. *)
C17_InputNotMutated ==
    /\ pc = "normalizedAt" =>
           /\ InputUntouched
           /\ Reach(mem.after, mem.out) \cap Reach(mem.before, mem.in) = {}
           /\ norm = Value(left, opts)
    /\ pc = "resultChanged" => InputUntouched

C17_Witness ==
    /\ pc = "resultChanged"
    /\ opts.SortArraysByKey = <<"a">>
    /\ opts.NullEqualsAbsent
    /\ left = Arr(<<Obj((<<"a">> :> Num(3)) @@ (<<"b">> :> Nil)), Nil, Obj((<<"a">> :> Num(2)))>>)
    /\ norm = Arr(<<Obj((<<"a">> :> Num(3))), Nil, Obj((<<"a">> :> Num(2)))>>)
    /\ Load(mem.after, mem.out) # norm
    /\ Load(mem.after, mem.in) = left

C17_WitnessSorted ==
    /\ pc = "normalizedAt"
    /\ opts.SortArraysByKey = <<"a">>
    /\ left = Arr(<<Obj((<<"a">> :> Num(3)) @@ (<<"b">> :> Nil)), Obj((<<"a">> :> Num(2)))>>)
    /\ norm.a[1] = Obj((<<"a">> :> Num(2)))
    /\ Cardinality(Reach(mem.after, mem.out)) = 3

Returns == pc \in {"returnedJSON", "returnedJSONWithOptions"}

(* what the decoder makes of some texts: the value of those that are JSON, *)
(* and a list of texts that are not                                        *)
DecoderExamples ==
    /\ jsonUnmarshal(<<"n", "u", "l", "l">>) = [ok |-> TRUE, v |-> Nil]
    /\ jsonUnmarshal(<<" ", "n", "u", "l", "l", " ">>) = [ok |-> TRUE, v |-> Nil]
    /\ jsonUnmarshal(<<"t", "r", "u", "e">>) = [ok |-> TRUE, v |-> Bool(TRUE)]
    /\ jsonUnmarshal(<<"1", ".", "5">>) = [ok |-> TRUE, v |-> Num(3)]
    /\ jsonUnmarshal(<<"-", "1">>) = [ok |-> TRUE, v |-> Num(-2)]
    /\ jsonUnmarshal(<<"1", "1">>) = [ok |-> TRUE, v |-> Num(22)]
    /\ jsonUnmarshal(<<"\"", "a", "\"">>) = [ok |-> TRUE, v |-> Str(<<"a">>)]
    /\ jsonUnmarshal(<<"[", " ", "]">>) = [ok |-> TRUE, v |-> Arr(<<>>)]
    /\ jsonUnmarshal(<<"[", "1", ",", "1", ".", "5", "]">>)
           = [ok |-> TRUE, v |-> Arr(<<Num(2), Num(3)>>)]
    /\ jsonUnmarshal(<<"{", "\"", "a", "\"", ":", "n", "u", "l", "l", "}">>)
           = [ok |-> TRUE, v |-> Obj((<<"a">> :> Nil))]
    /\ jsonUnmarshal(<<"{", "\"", "a", "\"", ":", "1", ",", "\"", "a", "\"", ":", "n", "u", "l", "l", "}">>)
           = [ok |-> TRUE, v |-> Obj((<<"a">> :> Nil))]
    /\ \A text \in {<<>>, <<" ">>, <<"n", "u", "l">>, <<"f", "a", "l", "s">>, <<"a">>,
                    <<"\"", "a">>, <<"[">>, <<"]">>, <<"[", "1">>, <<"[", "1", ",">>,
                    <<"[", ",", "]">>, <<"1", ",">>, <<"1", " ", "1">>, <<"1", ".">>,
                    <<".", "5">>, <<"-">>, <<"0", "1">>, <<"[", "]", "]">>,
                    <<"{", "\"", "a", "\"", ":", "1", ",", "}">>,
                    <<"{", "\"", "a", "\"", "1", "}">>, <<"{", "a", ":", "1", "}">>} :
           /\ text \in Texts
           /\ ~jsonUnmarshal(text).ok

(* C19. CompareJSON and CompareJSONWithOptions surface a decode failure   *)
(* as an error and never as a diff: a left text that is not JSON gives no *)
(* result and an 'invalid left JSON' error, also when the right text is   *)
(* not JSON either; a right text that alone is not JSON gives no result   *)
(* and an 'invalid right JSON' error; a result is returned only when both *)
(* texts decoded, and it is the diff of the two decoded values, so a text *)
(* that is not JSON is never compared as null.                            *)
C19_DecodeErrors ==
    Returns =>
        /\ ~jsonUnmarshal(leftJSON).ok => result = NoResult /\ err = "invalid left JSON"
        /\ jsonUnmarshal(leftJSON).ok /\ ~jsonUnmarshal(rightJSON).ok =>
               result = NoResult /\ err = "invalid right JSON"
        /\ result # NoResult <=> jsonUnmarshal(leftJSON).ok /\ jsonUnmarshal(rightJSON).ok
        /\ result # NoResult <=> err = NoError
        /\ result = NoResult =>
               /\ result # Compare(left, right)
               /\ result # Compare(Nil, jsonUnmarshal(rightJSON).v)
        /\ result # NoResult =>
               /\ left = jsonUnmarshal(leftJSON).v
               /\ right = jsonUnmarshal(rightJSON).v
               /\ pc = "returnedJSON" => result = Compare(left, right)
               /\ pc = "returnedJSONWithOptions" =>
                      result = CompareWithOptions(left, right, normalizeOpts(opts))

(* both texts are not JSON: the left one is reported *)
C19_Witness ==
    /\ pc = "returnedJSON"
    /\ leftJSON = <<"n", "u", "l">>
    /\ rightJSON = <<"[", "1", ",">>
    /\ result = NoResult
    /\ err = "invalid left JSON"

(* only the right text is not JSON, the left one is null *)
C19_WitnessRight ==
    /\ pc = "returnedJSONWithOptions"
    /\ leftJSON = <<"n", "u", "l", "l">>
    /\ rightJSON = <<>>
    /\ result = NoResult
    /\ err = "invalid right JSON"

(* both texts decode: null against an empty array *)
C19_WitnessDecoded ==
    /\ pc = "returnedJSON"
    /\ leftJSON = <<"n", "u", "l", "l">>
    /\ rightJSON = <<"[", " ", "]">>
    /\ err = NoError
    /\ result = Compare(Nil, Arr(<<>>))
    /\ result # NoResult

(* C21. After sorting by key k, no element that lacks k (a non-object or  *)
(* an object without k) stands before an element that has k: the elements *)
(* without the key are at the end of the array.                           *)
C21_UnkeyedAtEnd ==
    (pc = "normalized" /\ left.t = "arr" /\ opts.SortArraysByKey # NoKey) =>
        \A i, j \in DOMAIN norm.a :
            (i < j /\ Keyed(norm.a[j], opts.SortArraysByKey)) =>
                Keyed(norm.a[i], opts.SortArraysByKey)

(* the lines read so far that are JSON documents by themselves; an empty  *)
(* line is none                                                           *)
JSONLinesRead == {i \in 1..(scan.at - 1) : jsonUnmarshal(scan.lines[i]).ok}

(* the paths of the leaves of the document on line i *)
PathsOfLine(i) ==
    LET found == extractPathsWithValues(<<"$">>, jsonUnmarshal(scan.lines[i]).v)
    IN  {found[k].path : k \in DOMAIN found}

(* C22. The analyzer analyzes all JSON lines of its input: every line     *)
(* that is by itself a complete JSON document is counted as one record    *)
(* and its paths are tallied, whatever lines precede it, non-JSON lines   *)
(* that begin with '{' or '[' included; only lines that are not JSON are  *)
(* skipped.  So the result counts at least as many JSON lines as the      *)
(* input has such lines, and lists every path of such a line with at      *)
(* least as many object hits as there are such lines holding it.          *)
C22_EveryJSONLineCounted ==
    pc = "analyzed" =>
        /\ scan.analysis.JSONLines >= Cardinality(JSONLinesRead)
        /\ \A i \in JSONLinesRead : \A path \in PathsOfLine(i) :
               \E k \in DOMAIN scan.analysis.Paths :
                   /\ scan.analysis.Paths[k].Path = path
                   /\ scan.analysis.Paths[k].ObjectHits
                          >= Cardinality({j \in JSONLinesRead : path \in PathsOfLine(j)})

RECURSIVE JoinLines(_, _, _)
(* the lines i..j of the input as one text, a line feed between them *)
JoinLines(lines, i, j) ==
    IF i > j THEN <<>>
    ELSE IF i = j THEN lines[i]
    ELSE lines[i] \o <<"\n">> \o JoinLines(lines, i + 1, j)

(* the lines i..j are a document printed over several lines: the first    *)
(* opens an object or an array, the whole decodes, no shorter run of      *)
(* lines from i does, and the lines before the last stay within the limit *)
(* of the accumulator                                                      *)
PrettyPrinted(lines, i, j) ==
    /\ i < j
    /\ \/ HasPrefix(stringsTrimSpace(lines[i]), <<"{">>)
       \/ HasPrefix(stringsTrimSpace(lines[i]), <<"[">>)
    /\ jsonUnmarshal(JoinLines(lines, i, j)).ok
    /\ \A k \in i..(j - 1) : ~jsonUnmarshal(JoinLines(lines, i, k)).ok
    /\ builderLen(JoinLines(lines, i, j - 1)) <= maxAccumulatorSize

RECURSIVE Accumulated(_, _)
(* what the accumulator holds of the lines i..j when line i started it:   *)
(* AnalyzeString leaves the empty lines out                                *)
Accumulated(i, j) ==
    IF i > j THEN <<>>
    ELSE IF i = j THEN scan.lines[i]
    ELSE IF ~scan.file /\ scan.lines[j] = <<>> THEN Accumulated(i, j - 1)
    ELSE Accumulated(i, j - 1) \o <<"\n">> \o scan.lines[j]

(* the line scan.at is read in this step *)
ReadsLine == pc = "scanning" /\ scan'.at = scan.at + 1

(* multi-line mode exactly when something is accumulated *)
ModeMatchesAccumulator == scan.inMultiLine <=> scan.accumulator # <<>>

MultiLineFromSingleLineMode ==
    [][ReadsLine =>
          /\ (~scan.inMultiLine /\ \E j \in (scan.at + 1)..Len(scan.lines) :
                  PrettyPrinted(scan.lines, scan.at, j)) =>
                 /\ scan'.jsonLines = scan.jsonLines
                 /\ scan'.accumulator = scan.lines[scan.at]
                 /\ scan'.inMultiLine
          /\ \A i \in 1..(scan.at - 1) :
                 (scan.inMultiLine /\ scan.accumulator = Accumulated(i, scan.at - 1)) =>
                     /\ (\E j \in (scan.at + 1)..Len(scan.lines) : PrettyPrinted(scan.lines, i, j)) =>
                            /\ scan'.jsonLines = scan.jsonLines
                            /\ scan'.accumulator = Accumulated(i, scan.at)
                            /\ scan'.inMultiLine
                     /\ PrettyPrinted(scan.lines, i, scan.at) =>
                            /\ scan'.jsonLines = scan.jsonLines + 1
                            /\ scan'.accumulator = <<>>
                            /\ ~scan'.inMultiLine
          /\ ModeMatchesAccumulator
          /\ ModeMatchesAccumulator'
          /\ scan.inMultiLine => builderLen(scan'.accumulator) <= maxAccumulatorSize]_vars

(* the place in hist.calls of the last completed Clear, 0 if there is none *)
LastClear ==
    IF \E n \in DOMAIN hist.calls : hist.calls[n].op = "Clear"
    THEN CHOOSE n \in DOMAIN hist.calls :
             /\ hist.calls[n].op = "Clear"
             /\ \A m \in DOMAIN hist.calls : hist.calls[m].op = "Clear" => m <= n
    ELSE 0

(* the places of the completed Add calls of a key since the last Clear *)
AddsSinceClear(key) ==
    {n \in DOMAIN hist.calls :
        n > LastClear /\ hist.calls[n].op = "Add" /\ hist.calls[n].key = key}

(* the place of the latest of them that added path, 0 if there is none *)
LastAdded(key, path) ==
    IF \E n \in AddsSinceClear(key) : hist.calls[n].path = path
    THEN CHOOSE n \in AddsSinceClear(key) :
             /\ hist.calls[n].path = path
             /\ \A m \in AddsSinceClear(key) : hist.calls[m].path = path => m <= n
    ELSE 0

(* the path of the latest Add of a key since the last Clear, "" if none *)
LatestPath(key) ==
    IF AddsSinceClear(key) = {} THEN <<>>
    ELSE hist.calls[CHOOSE n \in AddsSinceClear(key) : \A m \in AddsSinceClear(key) : m <= n].path

(* a list without the path *)
Without(list, path) == SelectSeq(list, LAMBDA q : q # path)

(* a list of more than n paths without its last one *)
DropOldest(list, n) == IF Len(list) > n THEN SubSeq(list, 1, Len(list) - 1) ELSE list

(* C24. Starting from NewFileHistory, whenever no Add or Clear is under   *)
(* way the list of every key holds no path twice, has at most 10 entries  *)
(* and is ordered most-recently-added first (every entry was added since  *)
(* the last Clear, a later-added one before an earlier-added one).  An    *)
(* Add(key, p) that has stored its list has put p in front of the other   *)
(* paths of the key in their former order, dropped only the oldest entry  *)
(* where the list would have exceeded 10, and left every other key's list *)
(* alone.  GetMostRecent(key) reads the path of the latest Add of the key *)
(* since the last Clear, "" if there is none.                             *)
C24_HistoryOrdering ==
    pc = "history" =>
        /\ hist.mu.w = 0 =>
               \A key \in HistoryKeys :
                   LET list == Lists(hist)[key]
                   IN  /\ Len(list) <= 10
                       /\ \A i, j \in DOMAIN list : i < j =>
                              /\ list[i] # list[j]
                              /\ LastAdded(key, list[i]) > LastAdded(key, list[j])
                       /\ \A i \in DOMAIN list : LastAdded(key, list[i]) > 0
        /\ \A p \in Procs :
               (hist.proc[p].pc = "unlock" /\ hist.proc[p].op = "Add") =>
                   /\ Lists(hist)[hist.proc[p].key] =
                          <<hist.proc[p].path>> \o
                              DropOldest(Without(hist.proc[p].old[hist.proc[p].key], hist.proc[p].path), 9)
                   /\ \A key \in HistoryKeys \ {hist.proc[p].key} :
                          Lists(hist)[key] = hist.proc[p].old[key]
        /\ \A p \in Procs :
               (hist.proc[p].pc = "runlock" /\ hist.proc[p].op = "GetMostRecent") =>
                   hist.proc[p].recent = LatestPath(hist.proc[p].key)

(* an Add of a new path to a full list has dropped the oldest entry, and  *)
(* an Add of a path in the middle of a list has moved it to the front     *)
C24_Witness ==
    /\ pc = "history"
    /\ \E p \in Procs :
           /\ hist.proc[p].pc = "unlock" /\ hist.proc[p].op = "Add"
           /\ Len(hist.proc[p].old[hist.proc[p].key]) = 10
           /\ \A i \in 1..10 : hist.proc[p].old[hist.proc[p].key][i] # hist.proc[p].path
           /\ Len(Lists(hist)[hist.proc[p].key]) = 10
           /\ \E n \in DOMAIN hist.calls :
                  /\ hist.calls[n].op = "Add" /\ n > 10
                  /\ hist.calls[n].path = <<"p", "2">>

RECURSIVE ListAfter(_, _)
(* the list of a key after the first n completed Add and Clear calls *)
ListAfter(n, key) ==
    IF n = 0 THEN <<>>
    ELSE IF hist.calls[n].op = "Clear" THEN <<>>
    ELSE IF hist.calls[n].key # key THEN ListAfter(n - 1, key)
    ELSE <<hist.calls[n].path>> \o DropOldest(Without(ListAfter(n - 1, key), hist.calls[n].path), 9)

(* the goroutines inside Add or Clear, and those inside Get or GetMostRecent *)
Writing == {p \in Procs : hist.proc[p].pc \in {"remove", "store", "clear", "unlock"}}

Reading == {p \in Procs : hist.proc[p].pc \in {"read", "runlock"}}

(* the backing arrays the store and the goroutines other than p refer to *)
ArraysOfOthers(p) ==
    {hist.Paths[key].arr : key \in DOMAIN hist.Paths}
        \cup {hist.proc[q].paths.arr : q \in Procs \ {p}}
        \cup {hist.proc[q].result.arr : q \in Procs \ {p}}

(* C25. With Add, Get, GetMostRecent and Clear called concurrently on one *)
(* FileHistory, at most one goroutine is inside Add or Clear and then     *)
(* none is inside Get or GetMostRecent; the list a Get has read is the    *)
(* complete list of its key after some prefix of the completed Add and    *)
(* Clear calls; and the slice a Get returned is a private copy: it holds  *)
(* what was read and what its caller wrote into it whatever Add and Clear *)
(* do later, it shares its backing array with nobody, and what the caller *)
(* writes never shows in the store.                                       *)
C25_HistoryConcurrency ==
    pc = "history" =>
        /\ Cardinality(Writing) <= 1
        /\ Writing # {} => Reading = {}
        /\ hist.mu.w = 0 =>
               \A key \in HistoryKeys : Lists(hist)[key] = ListAfter(Len(hist.calls), key)
        /\ \A p \in Procs :
               (hist.proc[p].op = "Get" /\ hist.proc[p].pc \in {"runlock", "returned"}) =>
                   /\ Elements(hist, hist.proc[p].result) = hist.proc[p].seen
                   /\ \E n \in 0..Len(hist.calls) :
                          \/ hist.proc[p].seen = ListAfter(n, hist.proc[p].key)
                          \/ /\ hist.proc[p].seen # <<>>
                             /\ hist.proc[p].seen[1] = <<"x">>
                             /\ Len(ListAfter(n, hist.proc[p].key)) > 0
                             /\ hist.proc[p].seen = [ListAfter(n, hist.proc[p].key) EXCEPT ![1] = <<"x">>]
                   /\ hist.proc[p].result.arr = 0 \/ hist.proc[p].result.arr \notin ArraysOfOthers(p)
        /\ \A key \in HistoryKeys : \A i \in DOMAIN Lists(hist)[key] :
               Lists(hist)[key][i] # <<"x">>

(* a Get has returned a list, its caller has written into it, and another *)
(* goroutine is in the middle of an Add to the same key that has moved    *)
(* the elements of the store's backing array                              *)
C25_Witness ==
    /\ pc = "history"
    /\ \E p, q \in Procs :
           /\ p # q
           /\ hist.proc[p].op = "Get" /\ hist.proc[p].pc = "returned"
           /\ Len(hist.proc[p].seen) > 1 /\ hist.proc[p].seen[1] = <<"x">>
           /\ hist.proc[q].op = "Add" /\ hist.proc[q].pc = "store"
           /\ hist.proc[q].key = hist.proc[p].key
           /\ hist.proc[q].paths.len < hist.Paths[hist.proc[q].key].len
           /\ Lists(hist)[hist.proc[q].key] # hist.proc[q].old[hist.proc[q].key]

(* the paths an analysis result lists *)
PathsIn(a) == {a.Paths[i].Path : i \in DOMAIN a.Paths}

(* a field of the summary an analysis result holds of a path, 0 if it     *)
(* holds none                                                              *)
CountIn(a, path) ==
    IF path \in PathsIn(a) THEN (CHOOSE s \in Range(a.Paths) : s.Path = path).Count ELSE 0

ObjectHitsIn(a, path) ==
    IF path \in PathsIn(a) THEN (CHOOSE s \in Range(a.Paths) : s.Path = path).ObjectHits ELSE 0

DistinctCountIn(a, path) ==
    IF path \in PathsIn(a) THEN (CHOOSE s \in Range(a.Paths) : s.Path = path).DistinctCount ELSE 0

RECURSIVE SumOfCounts(_)
(* the sum of the counts of a list of summaries *)
SumOfCounts(summaries) ==
    IF summaries = <<>> THEN 0 ELSE Head(summaries).Count + SumOfCounts(Tail(summaries))

(* the status the claim gives a path of the union *)
StatusOf(l, r, path) ==
    IF path \notin PathsIn(r) THEN "removed"
    ELSE IF path \notin PathsIn(l) THEN "added"
    ELSE IF /\ CountIn(l, path) = CountIn(r, path)
            /\ ObjectHitsIn(l, path) = ObjectHitsIn(r, path)
            /\ DistinctCountIn(l, path) = DistinctCountIn(r, path)
    THEN "equal"
    ELSE "changed"

C27_RootKindAndStats ==
    Compared =>
        /\ result.Root.Type = DiffEqual <=>
               result.Stats.Added + result.Stats.Removed + result.Stats.Changed = 0
        /\ result.Stats.Equal + result.Stats.Added + result.Stats.Removed
               + result.Stats.Changed >= 1

(* two different documents that CompareWithOptions finds equal, child by  *)
(* child                                                                   *)
C27_Witness ==
    /\ pc = "comparedWithOptions"
    /\ left # right
    /\ result.Root.Type = DiffEqual
    /\ Len(result.Root.Children) >= 1
    /\ result.Stats = DiffStats(0, 0, 0, Len(result.Root.Children))

(* the options with normalizeNumbers alone *)
NumbersOnly == [NoNormalization EXCEPT !.NormalizeNumbers = TRUE]

(* C28. Normalization with DefaultOptions (sortKeys and normalizeNumbers  *)
(* set, the rest off) is the identity: Value(v, DefaultOptions) is v and  *)
(* is Value(v, NoNormalization), so CompareWithOptions with               *)
(* DefaultOptions returns the tree and the stats of Compare; and          *)
(* normalizeNumbers alone never changes a value.                          *)
C28_DefaultIsIdentity ==
    pc = "comparedWithOptions" =>
        /\ opts = DefaultOptions =>
               /\ Value(left, opts) = left
               /\ Value(right, opts) = right
               /\ Value(left, NoNormalization) = Value(left, opts)
               /\ Value(right, NoNormalization) = Value(right, opts)
               /\ result = Compare(left, right)
        /\ opts = NumbersOnly =>
               /\ Value(left, opts) = left
               /\ Value(right, opts) = right

(* CompareWithOptions with DefaultOptions on a string with a blank in     *)
(* front against a whole number                                           *)
C28_Witness ==
    /\ pc = "comparedWithOptions"
    /\ opts = DefaultOptions
    /\ left = Str(<<" ", "a">>)
    /\ right = Num(2)
    /\ result.Root = DiffNode(<<>>, DiffChanged, left, right, <<>>)

RECURSIVE Mirror(_)
(* a diff tree seen from the other side: Added and Removed exchanged, the *)
(* payloads swapped, the shape, the paths and the order kept              *)
Mirror(node) ==
    DiffNode(node.Path,
             IF node.Type = DiffAdded THEN DiffRemoved
             ELSE IF node.Type = DiffRemoved THEN DiffAdded
             ELSE node.Type,
             node.Right, node.Left,
             [i \in DOMAIN node.Children |-> Mirror(node.Children[i])])

(* C29. Compare is mirror-symmetric: Compare(b, a) is the tree of         *)
(* Compare(a, b) with the same shape, paths and child order, Added and    *)
(* Removed exchanged, Equal and Changed kept and the payloads swapped,    *)
(* and its stats are those of Compare(a, b) with added and removed        *)
(* exchanged.                                                              *)
C29_MirrorSymmetry ==
    pc = "compared" =>
        /\ Compare(right, left).Root = Mirror(result.Root)
        /\ Compare(right, left).Stats =
               DiffStats(result.Stats.Removed, result.Stats.Added,
                         result.Stats.Changed, result.Stats.Equal)

(* a comparison with an added, a removed and a changed leaf *)
C29_Witness ==
    /\ pc = "compared"
    /\ result.Stats.Added >= 1
    /\ result.Stats.Removed >= 1
    /\ result.Stats.Changed >= 1
    /\ Len(result.Root.Children) >= 2

RECURSIVE Places(_)
(* the places of the nodes of a diff tree: the child indices from the     *)
(* root down                                                               *)
Places(node) ==
    {<<>>} \cup UNION {{<<i>> \o place : place \in Places(node.Children[i])} :
                       i \in DOMAIN node.Children}

RECURSIVE NodeAt(_, _)
NodeAt(node, place) ==
    IF place = <<>> THEN node ELSE NodeAt(node.Children[Head(place)], Tail(place))

(* C30. Diff nodes are addressed by their path: no two distinct nodes of  *)
(* one diff tree carry the same path string, whatever strings the object  *)
(* keys are (the empty key, keys with '.', '[' or ']' in them).           *)
C30_PathsAddressNodes ==
    pc = "compared" =>
        \A p, q \in Places(result.Root) :
            p # q => NodeAt(result.Root, p).Path # NodeAt(result.Root, q).Path
====
